---------------------------- MODULE Spec2Model ----------------------------
(***************************************************************************)
(* A model of the LG WebOS signage clients:                                *)
(*   - lg_webos_client.py          LGWebOSClient        (cls "standalone") *)
(*   - lg_webos_legacy_client.py   LGWebOSLegacyClient  (cls "legacy")     *)
(*   - lg_webos_unified_client.py  LGWebOSClient        (cls "unified")    *)
(* One client object is driven by a single-threaded caller.  Every network *)
(* request is one step: the step sends the request, draws the display's    *)
(* answer (or a transport exception) from a small set and runs the code up *)
(* to the next request or to the return of the call.                       *)
(***************************************************************************)
EXTENDS Integers, Sequences, FiniteSets, TLC

(***************************************************************************)
(* Bounds of the model.                                                    *)
(***************************************************************************)
\* largest attempt budget (max_retry_attempts / max_attempts) a caller passes
MaxBudget == 5
\* number of API calls the caller makes on one client object
MaxCalls == 2
\* longest media listing a display returns to /content/list
MaxEntries == 2

(***************************************************************************)
(* Python values.  A str is the sequence of its characters; None of a      *)
(* str-or-None local is the one-element sequence <<"None">> (no character  *)
(* is four letters long).  JSON values and return values are tagged        *)
(* records.                                                                *)
(***************************************************************************)
None == <<"None">>

JNone == [t |-> "none"]
JBool(b) == [t |-> "bool", b |-> b]
JInt(n) == [t |-> "int", n |-> n]
JStr(s) == [t |-> "str", s |-> s]
JList(l) == [t |-> "list", l |-> l]
JDict(d) == [t |-> "dict", d |-> d]
\* {}
EmptyDict == JDict([k \in {} |-> JNone])
\* a body that response.json() cannot parse
NotJson == [t |-> "notjson"]
\* the call raised instead of returning
Raised(e) == [t |-> "raise", e |-> e]

\* bool(v) of Python
Truthy(v) ==
    CASE v.t = "none" -> FALSE
      [] v.t = "bool" -> v.b
      [] v.t = "int" -> v.n # 0
      [] v.t = "str" -> Len(v.s) > 0
      [] v.t = "list" -> Len(v.l) > 0
      [] v.t = "dict" -> DOMAIN v.d # {}
      [] OTHER -> TRUE

\* dict.get(k, default) on a JSON object
DictGet(v, k, default) == IF k \in DOMAIN v.d THEN v.d[k] ELSE default

Whitespace == {" ", "\n", "\t", "\r"}
Digits == {"0", "1", "2", "3", "4", "5", "6", "7", "8", "9"}

RECURSIVE LStrip(_)
LStrip(s) == IF s # <<>> /\ Head(s) \in Whitespace THEN LStrip(Tail(s)) ELSE s

RECURSIVE RStrip(_)
RStrip(s) ==
    IF s # <<>> /\ s[Len(s)] \in Whitespace
    THEN RStrip(SubSeq(s, 1, Len(s) - 1))
    ELSE s

\* str.strip()
Strip(s) == RStrip(LStrip(s))

\* ''.join(filter(str.isdigit, s))
DigitsOf(s) == SelectSeq(s, LAMBDA c : c \in Digits)

\* str.isdigit()
IsDigit(s) == s # <<>> /\ \A i \in 1..Len(s) : s[i] \in Digits

\* sub in s
Contains(s, sub) ==
    \E i \in 1..(Len(s) + 1) :
        /\ i + Len(sub) - 1 <= Len(s)
        /\ SubSeq(s, i, i + Len(sub) - 1) = sub

\* s.startswith(p)
StartsWith(s, p) == Len(p) <= Len(s) /\ SubSeq(s, 1, Len(p)) = p

(***************************************************************************)
(* What the display (or the transport) answers to one request.             *)
(***************************************************************************)
Exc == [exc |-> TRUE, status |-> 0, body |-> JNone]
Http(st, b) == [exc |-> FALSE, status |-> st, body |-> b]

S_success == <<"s", "u", "c", "c", "e", "s", "s">>
S_restricted == <<"r", "e", "s", "t", "r", "i", "c", "t", "e", "d">>
S_fail == <<"f", "a", "i", "l">>

\* answers to a request whose body the code never reads
PlainResps == {Exc, Http(200, JNone), Http(500, JNone)}

\* answers to the legacy credentials POST /login
SubmitResps ==
    { Exc,
      Http(200, JStr(S_success)),
      Http(200, JStr(S_success \o <<"\n">>)),
      Http(200, JStr(S_restricted)),
      Http(200, JStr(S_fail)),
      Http(500, JStr(S_success)) }

\* what an OCR engine reads off a captcha image, before the digit filter;
\* None stands for an engine that raised or returned nothing
OcrTexts ==
    { None,
      <<"4", "8", "2", "1">>,
      <<"4", "8", " ", "2", "1", "\n">>,
      <<"4", "8", "2">> }

\* what the operator types at the input() prompt; None stands for a prompt
\* that raised (EOF, or captcha.png could not be written)
TypedTexts ==
    { None,
      <<"4", "8", "2", "1">>,
      <<" ", "4", "8", "2", "1", "\n">>,
      <<"4", "8">>,
      <<"a", "b", "c", "d">> }

Ports == {443, 3777}

S_4821 == <<"4", "8", "2", "1">>
S_1357 == <<"1", "3", "5", "7">>
S_text_html == <<"t", "e", "x", "t", "/", "h", "t", "m", "l">>
S_html_utf8 == S_text_html \o <<";", " ", "c", "h", "a", "r", "s", "e", "t", "=", "u", "t", "f", "-", "8">>
S_app_json == <<"a", "p", "p", "l", "i", "c", "a", "t", "i", "o", "n", "/", "j", "s", "o", "n">>

Passwords == {<<"p", "w">>}

\* answers to GET /login/checkLoginStatus
CheckResps ==
    { Exc,
      Http(200, NotJson),
      Http(200, JList(<<>>)),
      Http(200, JDict([data |-> JBool(TRUE)])),
      Http(200, JDict([data |-> JBool(FALSE)])),
      Http(200, JDict([status |-> JInt(200)])) }

NoCaptchaSession ==
    JDict([status |-> JInt(404), message |-> JStr(<<"n", "o">>)])

\* answers to GET /login/captchaText
TextResps ==
    { Exc,
      Http(404, NoCaptchaSession),
      Http(200, NoCaptchaSession),
      Http(200, NotJson),
      Http(200, JDict([status |-> JInt(200), data |-> JStr(S_4821)])),
      Http(200, JDict([status |-> JInt(200),
                       data |-> JDict([text |-> JStr(S_1357)])])),
      Http(200, JDict([status |-> JInt(200), data |-> JInt(4821)])),
      Http(200, JDict([status |-> JInt(200)])) }

LoginJson(st, res) ==
    JDict([status |-> JInt(st), data |-> JDict([result |-> JBool(res)])])

\* answers to the modern credentials POST /login/login
LoginResps ==
    { Exc,
      Http(200, NotJson),
      Http(200, LoginJson(200, TRUE)),
      Http(200, LoginJson(200, FALSE)),
      Http(200, LoginJson(401, TRUE)),
      Http(500, LoginJson(200, TRUE)),
      Http(200, JDict([status |-> JInt(200)])),
      Http(200, JDict([status |-> JInt(200), data |-> JNone])) }

\* a probe answer with its Content-Type header
Page(st, ct) == [exc |-> FALSE, status |-> st, body |-> JNone, ctype |-> ct]
ExcPage == [exc |-> TRUE, status |-> 0, body |-> JNone, ctype |-> <<>>]

\* answers to the detector's GET /login
PageResps ==
    { ExcPage,
      Page(200, S_html_utf8),
      Page(200, S_app_json),
      Page(200, <<>>),
      Page(404, S_text_html) }

\* answers to the detector's captcha probes
ProbeResps ==
    { Exc,
      Http(200, JNone),
      Http(404, JNone),
      Http(500, JNone) }

\* hashlib.sha512(x.encode()).hexdigest(): an uninterpreted one-to-one
\* function of its input, written as the input between two marks that no
\* input contains
Sha512Hex(x) == <<"sha512(">> \o x \o <<")">>

(***************************************************************************)
(* State.                                                                  *)
(***************************************************************************)
VARIABLES
    \* fields of the client object
    cls,            \* which class the object is
    display_type,   \* unified: "modern", "legacy" or "None"
    port,           \* unified: the port, 0 for None
    base_url,       \* the port of base_url, 0 for None
    session,        \* identity of the requests.Session held in self.session
    authenticated,  \* self._authenticated
    use_socketio,   \* unified: self._use_socketio
    sio,            \* self.sio: "unset", "created" or "connected"
    use_ocr,        \* legacy: self.use_ocr; unified: the local of _login_legacy
    password,       \* self.password
    \* frame of the call in progress
    pc,             \* "idle", or the request the call sends next
    op,             \* the API call in progress (or the last one)
    attempt,        \* loop variable of the retry loop
    max_attempts,   \* attempt budget of the call
    captcha,        \* the captcha local: None or a str
    cand,           \* detection: index of the candidate being probed
    captcha_text,   \* modern login: the captcha_text local
    arg,            \* play_playlist: playlist_name; play_media: the src
    storage_ids,    \* get_media: the storage_ids local
    media,          \* play_playlist: what get_media returned
    selected,       \* play_playlist: the selected_playlist local
    ret,            \* what the last call returned
    \* history of the call in progress (observation only)
    nextSession,    \* identity the next requests.Session() gets
    ncalls,         \* API calls made so far
    sent,           \* requests of the current attempt or candidate, oldest first
    usedSess,       \* sessions on which the current call sent a request
    attSess,        \* session on which the current attempt started
    prevSess,       \* session on which the attempt before it started, or 0
    resp,           \* the answer to the last request
    confirmedOn,    \* session on which the display last confirmed a login
    restricted,     \* a "restricted" body arrived in the current call
    prompted,       \* the current call asked the operator for a captcha
    noneSoFar,      \* the OCR gave nothing in every earlier attempt of the call
    solved,         \* OCR of the current attempt: "", "ok", "none", "skip"
    probed,         \* the current call sent a detection probe
    posted,         \* form or JSON body of the last credentials POST
    req_param       \* reqParam of the last content request, or the command

clientVars ==
    <<cls, display_type, port, base_url, session, authenticated, use_socketio,
      use_ocr, password, sio>>
frameVars ==
    <<pc, op, attempt, max_attempts, captcha, cand, captcha_text, arg,
      storage_ids, media, selected, ret>>
\* the locals and the history of the content operations
contentVars == <<sio, arg, storage_ids, media, selected, req_param>>
histVars ==
    <<nextSession, ncalls, sent, usedSess, attSess, prevSess, resp,
      confirmedOn, restricted, prompted, noneSoFar, solved, probed, posted,
      req_param>>
vars == <<clientVars, frameVars, histVars>>

NoResp == Http(0, JNone)

NoPost == [none |-> TRUE]

\* one entry of the request log: the request, the session and port it went
\* out on, and the answer
Req(ep, r) ==
    [ep |-> ep, sess |-> session, port |-> base_url, exc |-> r.exc,
     body |-> r.body]

\* the bookkeeping of one request: log it and remember the answer
Sends(ep, r) ==
    /\ sent' = Append(sent, Req(ep, r))
    /\ resp' = r

\* the call returns v
Returns(v) ==
    /\ pc' = "idle"
    /\ ret' = v

\* a call starts: the history of the previous call is dropped
StartsCall(name) ==
    /\ pc = "idle"
    /\ ncalls < MaxCalls
    /\ ncalls' = ncalls + 1
    /\ op' = name
    /\ sent' = <<>>
    /\ usedSess' = {}
    /\ attSess' = 0
    /\ prevSess' = 0
    /\ resp' = NoResp
    /\ restricted' = FALSE
    /\ prompted' = FALSE
    /\ noneSoFar' = TRUE
    /\ solved' = ""
    /\ probed' = FALSE
    /\ posted' = NoPost
    /\ storage_ids' = <<>>
    /\ media' = JNone
    /\ selected' = JNone
    /\ req_param' = JNone

\* a call that is not a login: the locals of the login flows do not exist
\* (use_ocr is a field of the legacy client and a local of the unified one)
NoLoginFrame ==
    /\ attempt' = 0
    /\ max_attempts' = 0
    /\ captcha' = None
    /\ cand' = 0
    /\ captcha_text' = None
    /\ use_ocr' = IF cls = "unified" THEN FALSE ELSE use_ocr
    /\ UNCHANGED <<cls, display_type, port, base_url, session, authenticated,
                   use_socketio, password, sio>>

\* self.session = requests.Session()
NewSession ==
    /\ session' = nextSession
    /\ nextSession' = nextSession + 1

KeepSession == UNCHANGED <<session, nextSession>>


(***************************************************************************)
(* Unified client: _login_legacy (lg_webos_unified_client.py 207-400).     *)
(***************************************************************************)

\* the first request of a login attempt opens the attempt's log
SendsFirst(ep, r) ==
    /\ sent' = <<Req(ep, r)>>
    /\ resp' = r

\* a loop that runs one attempt past its budget
LoopContinue_oneMore ==
    IF attempt <= max_attempts
    THEN /\ attempt' = attempt + 1
         /\ pc' = "ul_root"
         /\ UNCHANGED ret
    ELSE /\ Returns(JBool(FALSE))
         /\ UNCHANGED attempt

\* `continue`, or the end of the loop body: the next iteration of
\* `for attempt in range(1, max_attempts + 1)`, or `return False` after it
LoopContinue ==
    IF attempt < max_attempts
    THEN /\ attempt' = attempt + 1
         /\ pc' = "ul_root"
         /\ UNCHANGED ret
    ELSE /\ Returns(JBool(FALSE))
         /\ UNCHANGED attempt

\* a comparison that forgets to strip the body
UL_Accepted_unstripped(r) == r.body.s = S_success

\* line 380: response.text.strip() == "success"
UL_Accepted(r) == Strip(r.body.s) = S_success

\* line 354: the OCR failure is retried automatically
UL_AutoRetry(k, m) == k < m - 2

\* lines 274-350: EasyOCR first, Tesseract when it gave nothing; each keeps
\* the digits of what it read and accepts them only when there are four
OcrRead(text) ==
    IF text = None THEN None
    ELSE IF Len(DigitsOf(text)) = 4 THEN DigitsOf(text) ELSE None

OcrChain(t1, t2) == IF OcrRead(t1) # None THEN OcrRead(t1) ELSE OcrRead(t2)

\* lines 259: GET /
UL_Root ==
    /\ pc = "ul_root"
    /\ \E r \in PlainResps :
        /\ SendsFirst("GET /", r)
        /\ usedSess' = usedSess \cup {session}
        /\ attSess' = session
        /\ prevSess' = attSess
        /\ solved' = ""
        /\ noneSoFar' = IF attSess = 0 THEN noneSoFar
                        ELSE noneSoFar /\ solved = "none"
        /\ captcha' = None
        /\ IF r.exc
           THEN LoopContinue
           ELSE pc' = "ul_login" /\ UNCHANGED <<attempt, ret>>
    /\ UNCHANGED <<clientVars, op, max_attempts, cand, captcha_text, arg,
                   storage_ids, media, selected, req_param>>
    /\ UNCHANGED <<nextSession, ncalls, confirmedOn, restricted, prompted,
                   probed, posted>>

\* line 260: GET /login
UL_LoginPage ==
    /\ pc = "ul_login"
    /\ \E r \in PlainResps :
        /\ Sends("GET /login", r)
        /\ IF r.exc
           THEN LoopContinue
           ELSE pc' = "ul_captcha" /\ UNCHANGED <<attempt, ret>>
    /\ UNCHANGED <<clientVars, op, max_attempts, captcha, cand, captcha_text,
                   arg, storage_ids, media, selected, req_param>>
    /\ UNCHANGED <<nextSession, ncalls, usedSess, attSess, prevSess,
                   confirmedOn, restricted, prompted, noneSoFar, solved,
                   probed, posted>>

\* lines 263-268: GET /request/captchapng
UL_Captcha ==
    /\ pc = "ul_captcha"
    /\ \E r \in PlainResps :
        /\ Sends("GET /request/captchapng", r)
        /\ IF r.exc \/ r.status # 200
           THEN LoopContinue
           ELSE pc' = "ul_solve" /\ UNCHANGED <<attempt, ret>>
    /\ UNCHANGED <<clientVars, op, max_attempts, captcha, cand, captcha_text,
                   arg, storage_ids, media, selected, req_param>>
    /\ UNCHANGED <<nextSession, ncalls, usedSess, attSess, prevSess,
                   confirmedOn, restricted, prompted, noneSoFar, solved,
                   probed, posted>>

\* lines 269-359: the OCR chain, and the automatic retry on its failure
UL_Solve ==
    /\ pc = "ul_solve"
    /\ \E t1, t2 \in OcrTexts :
        LET c == IF use_ocr THEN OcrChain(t1, t2) ELSE None IN
        /\ use_ocr \/ (t1 = None /\ t2 = None)
        /\ captcha' = c
        /\ solved' = IF ~use_ocr THEN "skip"
                      ELSE IF c = None THEN "none" ELSE "ok"
        /\ UNCHANGED noneSoFar
        /\ IF c # None
           THEN /\ pc' = "ul_post"
                /\ KeepSession
                /\ UNCHANGED <<attempt, ret>>
           ELSE IF UL_AutoRetry(attempt, max_attempts)
                THEN NewSession /\ LoopContinue
                ELSE /\ pc' = "ul_manual"
                     /\ KeepSession
                     /\ UNCHANGED <<attempt, ret>>
    /\ UNCHANGED <<cls, display_type, port, base_url, authenticated,
                   use_socketio, use_ocr, password>>
    /\ UNCHANGED <<op, max_attempts, cand, captcha_text, contentVars>>
    /\ UNCHANGED <<ncalls, sent, usedSess, attSess, prevSess, resp,
                   confirmedOn, restricted, prompted, probed, posted>>

\* lines 361-368: captcha.png is written and the operator is asked
UL_Manual ==
    /\ pc = "ul_manual"
    /\ \E typed \in TypedTexts :
        /\ prompted' = TRUE
        /\ IF typed = None
           THEN LoopContinue /\ UNCHANGED captcha
           ELSE /\ captcha' = Strip(typed)
                /\ IF Len(Strip(typed)) # 4
                   THEN LoopContinue
                   ELSE pc' = "ul_post" /\ UNCHANGED <<attempt, ret>>
    /\ UNCHANGED <<clientVars, op, max_attempts, cand, captcha_text, arg,
                   storage_ids, media, selected, req_param>>
    /\ UNCHANGED <<nextSession, ncalls, sent, usedSess, attSess, prevSess,
                   resp, confirmedOn, restricted, noneSoFar, solved, probed,
                   posted>>

\* lines 374-398: POST /login with the password and the captcha
UL_Submit ==
    /\ pc = "ul_post"
    /\ \E r \in SubmitResps :
        /\ Sends("POST /login", r)
        /\ posted' = [password |-> password, captcha |-> captcha]
        /\ restricted' = (restricted \/ (~r.exc /\ Contains(r.body.s, S_restricted)))
        /\ IF r.exc
           THEN /\ LoopContinue
                /\ KeepSession
                /\ UNCHANGED <<authenticated, use_socketio, confirmedOn>>
           ELSE IF UL_Accepted(r)
                THEN /\ authenticated' = TRUE
                     /\ use_socketio' = TRUE
                     /\ confirmedOn' = session
                     /\ Returns(JBool(TRUE))
                     /\ KeepSession
                     /\ UNCHANGED attempt
                ELSE /\ IF attempt < max_attempts
                        THEN NewSession
                        ELSE KeepSession
                     /\ LoopContinue
                     /\ UNCHANGED <<authenticated, use_socketio, confirmedOn>>
    /\ UNCHANGED <<cls, display_type, port, base_url, use_ocr, password>>
    /\ UNCHANGED <<op, max_attempts, captcha, cand, captcha_text,
                   contentVars>>
    /\ UNCHANGED <<ncalls, usedSess, attSess, prevSess, prompted, noneSoFar,
                   solved, probed>>

\* lines 207-253: the OCR engines that can be imported decide use_ocr; the
\* loop starts, or does not run at all for a budget of 0
UL_Enter(m) ==
    /\ \E ocr \in BOOLEAN : use_ocr' = ocr
    /\ captcha' = None
    /\ IF 1 <= m
       THEN attempt' = 1 /\ pc' = "ul_root" /\ ret' = JNone
       ELSE attempt' = 0 /\ Returns(JBool(FALSE))


(***************************************************************************)
(* Unified client: _login_modern (lg_webos_unified_client.py 150-205).     *)
(* Every exception inside the try block ends the call with False.          *)
(***************************************************************************)

\* what a step of a modern login leaves alone
modernKeeps ==
    <<cls, display_type, port, base_url, session, use_socketio, use_ocr,
      password, op, attempt, max_attempts, captcha, cand, nextSession,
      ncalls, usedSess, attSess, prevSess, restricted, prompted, noneSoFar,
      solved, probed, contentVars>>

\* lines 160-161: data = response.json(); data.get('data', False)
UM_Existing(r) ==
    /\ r.body.t = "dict"
    /\ Truthy(DictGet(r.body, "data", JBool(FALSE)))

\* lines 179-180: the captcha text is data['data'], or its 'text' entry
UM_CaptchaText(body) ==
    LET captcha_data == DictGet(body, "data", JNone) IN
    IF captcha_data.t = "dict"
    THEN DictGet(captcha_data, "text", JNone)
    ELSE captcha_data

\* a digest over a captcha text that is not the one of this call
UM_Digest_stale(pw, ct) == Sha512Hex(Sha512Hex(pw) \o S_4821)

\* lines 183-184: SHA512(SHA512(password) + captcha)
UM_Digest(pw, ct) == Sha512Hex(Sha512Hex(pw) \o ct)

\* lines 193-194: data.get('status') == 200 and
\* data.get('data', {}).get('result'); a body that is no JSON object, or a
\* 'data' that is no object, raises and is caught as a failure
UM_LoginOk(r) ==
    /\ r.body.t = "dict"
    /\ DictGet(r.body, "status", JNone) = JInt(200)
    /\ LET d == DictGet(r.body, "data", EmptyDict) IN
       /\ d.t = "dict"
       /\ Truthy(DictGet(d, "result", JNone))

\* lines 154-156: GET /login/status
UM_Status ==
    /\ pc = "um_status"
    /\ \E r \in PlainResps :
        /\ SendsFirst("GET /login/status", r)
        /\ IF r.exc \/ r.status # 200
           THEN Returns(JBool(FALSE))
           ELSE pc' = "um_check" /\ UNCHANGED ret
    /\ UNCHANGED <<modernKeeps, authenticated, confirmedOn, captcha_text,
                   posted>>

\* lines 159-165: GET /login/checkLoginStatus
UM_Check ==
    /\ pc = "um_check"
    /\ \E r \in CheckResps :
        /\ Sends("GET /login/checkLoginStatus", r)
        /\ IF r.exc
           THEN Returns(JBool(FALSE)) /\ UNCHANGED <<authenticated,
                                                     confirmedOn>>
           ELSE IF UM_Existing(r)
                THEN /\ authenticated' = TRUE
                     /\ confirmedOn' = session
                     /\ Returns(JBool(TRUE))
                ELSE /\ IF r.body.t # "dict"
                        THEN Returns(JBool(FALSE))
                        ELSE pc' = "um_captcha" /\ UNCHANGED ret
                     /\ UNCHANGED <<authenticated, confirmedOn>>
    /\ UNCHANGED <<modernKeeps, captcha_text, posted>>

\* lines 168-169: GET /login/captcha; the answer is not looked at
UM_Captcha ==
    /\ pc = "um_captcha"
    /\ \E r \in PlainResps :
        /\ Sends("GET /login/captcha", r)
        /\ IF r.exc
           THEN Returns(JBool(FALSE))
           ELSE pc' = "um_text" /\ UNCHANGED ret
    /\ UNCHANGED <<modernKeeps, authenticated, confirmedOn, captcha_text,
                   posted>>

\* lines 171-184: GET /login/captchaText, and the digest of the password
UM_Text ==
    /\ pc = "um_text"
    /\ \E r \in TextResps :
        /\ Sends("GET /login/captchaText", r)
        /\ IF \/ r.exc
              \/ r.status # 200
              \/ r.body.t # "dict"
              \/ DictGet(r.body, "status", JNone) # JInt(200)
              \/ UM_CaptchaText(r.body).t # "str"
           THEN Returns(JBool(FALSE)) /\ UNCHANGED captcha_text
           ELSE /\ captcha_text' = UM_CaptchaText(r.body).s
                /\ pc' = "um_post"
                /\ UNCHANGED ret
    /\ UNCHANGED <<modernKeeps, authenticated, confirmedOn, posted>>

\* lines 187-200: POST /login/login
UM_Post ==
    /\ pc = "um_post"
    /\ \E r \in LoginResps :
        /\ Sends("POST /login/login", r)
        /\ posted' = [pwd |-> UM_Digest(password, captcha_text)]
        /\ IF ~r.exc /\ UM_LoginOk(r)
           THEN /\ authenticated' = TRUE
                /\ confirmedOn' = session
                /\ Returns(JBool(TRUE))
           ELSE /\ Returns(JBool(FALSE))
                /\ UNCHANGED <<authenticated, confirmedOn>>
    /\ UNCHANGED <<modernKeeps, captcha_text>>

(***************************************************************************)
(* Unified client: login and _detect_display_type                          *)
(* (lg_webos_unified_client.py 49-148).                                    *)
(***************************************************************************)

\* a detector that tries the legacy candidate first
TestConfigs_legacyFirst ==
    << [port |-> 443, type |-> "legacy"],
       [port |-> 3777, type |-> "modern"],
       [port |-> 443, type |-> "modern"] >>

\* lines 60-64
TestConfigs ==
    << [port |-> 3777, type |-> "modern"],
       [port |-> 443, type |-> "modern"],
       [port |-> 443, type |-> "legacy"] >>

\* line 122: the identity returned when no candidate answered
DefaultPort == 3777

\* a login that runs the modern flow whatever the display type
Dispatch_alwaysModern(t, m) ==
    /\ pc' = "um_status"
    /\ ret' = JNone
    /\ use_ocr' = FALSE
    /\ captcha' = None
    /\ attempt' = 0

\* lines 145-148: the login flow of the display type
Dispatch(t, m) ==
    IF t = "modern"
    THEN /\ pc' = "um_status"
         /\ ret' = JNone
         /\ use_ocr' = FALSE
         /\ captcha' = None
         /\ attempt' = 0
    ELSE UL_Enter(m)

\* lines 137-148 after _detect_display_type returned (t, p)
Resolved(t, p) ==
    /\ display_type' = t
    /\ port' = p
    /\ base_url' = p
    /\ Dispatch(t, max_attempts)
    /\ UNCHANGED cand

\* a detector that falls back to the default at the first failed candidate
DetectContinue_givesUp == Resolved("modern", DefaultPort)

\* lines 76, 114-122: this candidate is given up
DetectContinue ==
    IF cand < Len(TestConfigs)
    THEN /\ cand' = cand + 1
         /\ pc' = IF TestConfigs[cand + 1].type = "modern"
                  THEN "d_status"
                  ELSE "d_login"
         /\ UNCHANGED <<display_type, port, base_url, use_ocr, captcha,
                        attempt, ret>>
    ELSE Resolved("modern", DefaultPort)

\* one entry of the probe log: the probe (sent outside self.session, hence
\* session 0), the port it went to, and the answer
Probe(ep, r) ==
    [ep |-> ep, sess |-> 0, port |-> TestConfigs[cand].port, ans |-> r]

\* the bookkeeping of one detection probe; the log holds the probes of the
\* candidate under test, and the first probe of a candidate opens it
Probes(ep, r, first) ==
    /\ sent' = IF first THEN <<Probe(ep, r)>> ELSE Append(sent, Probe(ep, r))
    /\ probed' = TRUE
    /\ resp' = r

\* what a detection step leaves alone
detectKeeps ==
    <<cls, session, authenticated, use_socketio, password, op, max_attempts,
      captcha_text, nextSession, ncalls, usedSess, attSess, prevSess,
      confirmedOn, restricted, prompted, noneSoFar, solved, posted,
      contentVars>>

S_status == <<"s", "t", "a", "t", "u", "s">>
S_message == <<"m", "e", "s", "s", "a", "g", "e">>

\* answers to the captchaText probe of the detector
ProbeTextResps ==
    TextResps \cup
    { Http(500, NoCaptchaSession),
      Http(200, JList(<<JStr(S_status), JStr(S_message)>>)),
      Http(200, JStr(S_status)) }

\* lines 90-98: `key in data` for the parsed body: a key of an object, an
\* element of an array, a part of a string; on any other value the test
\* raises, as json() does on a body that is no JSON, and the bare except
\* passes
D_In(key, chars, data) ==
    CASE data.t = "dict" -> key \in DOMAIN data.d
      [] data.t = "list" -> \E i \in 1..Len(data.l) : data.l[i] = JStr(chars)
      [] data.t = "str" -> Contains(data.s, chars)
      [] OTHER -> FALSE

\* lines 88-98: the captchaText answer of a modern display
D_TextOk(r) ==
    /\ r.status \in {200, 404}
    /\ D_In("status", S_status, r.body)
    /\ D_In("message", S_message, r.body)

\* lines 103-106: the login page of a legacy display
D_PageOk(r) == r.status = 200 /\ Contains(r.ctype, S_text_html)

\* line 109
D_PngOk(r) == r.status \in {200, 404}

\* lines 74-76: requests.get /login/status
D_Status ==
    /\ pc = "d_status"
    /\ \E r \in PlainResps :
        /\ Probes("GET /login/status", r, TRUE)
        /\ IF r.exc \/ r.status # 200
           THEN DetectContinue
           ELSE /\ pc' = "d_status2"
                /\ UNCHANGED <<cand, display_type, port, base_url, use_ocr,
                               captcha, attempt, ret>>
    /\ UNCHANGED detectKeeps

\* lines 79-81: the same request on a temporary session
D_Status2 ==
    /\ pc = "d_status2"
    /\ \E r \in PlainResps :
        /\ Probes("GET /login/status", r, FALSE)
        /\ IF r.exc
           THEN DetectContinue
           ELSE /\ pc' = "d_text"
                /\ UNCHANGED <<cand, display_type, port, base_url, use_ocr,
                               captcha, attempt, ret>>
    /\ UNCHANGED detectKeeps

\* lines 84-98: GET /login/captchaText on the temporary session
D_Text ==
    /\ pc = "d_text"
    /\ \E r \in ProbeTextResps :
        /\ Probes("GET /login/captchaText", r, FALSE)
        /\ IF ~r.exc /\ D_TextOk(r)
           THEN Resolved("modern", TestConfigs[cand].port)
           ELSE DetectContinue
    /\ UNCHANGED detectKeeps

\* lines 102-106: requests.get /login
D_Login ==
    /\ pc = "d_login"
    /\ \E r \in PageResps :
        /\ Probes("GET /login", r, TRUE)
        /\ IF ~r.exc /\ D_PageOk(r)
           THEN /\ pc' = "d_png"
                /\ UNCHANGED <<cand, display_type, port, base_url, use_ocr,
                               captcha, attempt, ret>>
           ELSE DetectContinue
    /\ UNCHANGED detectKeeps

\* lines 108-112: requests.get /request/captchapng
D_Png ==
    /\ pc = "d_png"
    /\ \E r \in ProbeResps :
        /\ Probes("GET /request/captchapng", r, FALSE)
        /\ IF ~r.exc /\ D_PngOk(r)
           THEN Resolved("legacy", TestConfigs[cand].port)
           ELSE DetectContinue
    /\ UNCHANGED detectKeeps

\* a login that detects the display on every call
NeedsDetection_always == TRUE

\* line 136: self.display_type is None or self.port is None
NeedsDetection == display_type = "None" \/ port = 0

\* lines 124-148: login(verbose, max_retry_attempts)
U_Login ==
    /\ cls = "unified"
    /\ StartsCall("login")
    /\ \E m \in 0..MaxBudget :
        /\ max_attempts' = m
        /\ IF NeedsDetection
           THEN /\ cand' = 1
                /\ pc' = "d_status"
                /\ attempt' = 0
                /\ captcha' = None
                /\ ret' = JNone
                /\ use_ocr' = FALSE
                /\ UNCHANGED <<display_type, port, base_url>>
           ELSE /\ base_url' = port
                /\ Dispatch(display_type, m)
                /\ cand' = 0
                /\ UNCHANGED <<display_type, port>>
    /\ captcha_text' = None
    /\ arg' = None
    /\ UNCHANGED <<cls, session, authenticated, use_socketio, password, sio,
                   nextSession, confirmedOn>>


(***************************************************************************)
(* Standalone client: login (lg_webos_client.py 43-133).                   *)
(***************************************************************************)

\* an encoding that sends the password as it is
SA_encode_password_plain(pw, ct) == pw

\* lines 43-57: _encode_password
SA_encode_password(pw, ct) == Sha512Hex(Sha512Hex(pw) \o ct)

\* a login that never takes the existing session
SA_Existing_never(r) == FALSE

\* lines 79-80: data = response.json(); data.get('data', False)
SA_Existing(r) ==
    /\ r.body.t = "dict"
    /\ Truthy(DictGet(r.body, "data", JBool(FALSE)))

\* lines 106-107
SA_CaptchaText(body) ==
    LET captcha_data == DictGet(body, "data", JNone) IN
    IF captcha_data.t = "dict"
    THEN DictGet(captcha_data, "text", JNone)
    ELSE captcha_data

\* lines 119-120
SA_LoginOk(r) ==
    /\ r.body.t = "dict"
    /\ DictGet(r.body, "status", JNone) = JInt(200)
    /\ LET d == DictGet(r.body, "data", EmptyDict) IN
       /\ d.t = "dict"
       /\ Truthy(DictGet(d, "result", JNone))

\* lines 59-69: login(verbose)
SA_Login ==
    /\ cls = "standalone"
    /\ StartsCall("login")
    /\ pc' = "sa_status"
    /\ ret' = JNone
    /\ captcha_text' = None
    /\ arg' = None
    /\ UNCHANGED <<clientVars, attempt, max_attempts, captcha, cand,
                   nextSession, confirmedOn>>

\* a first step outside the try block: a transport failure escapes
SA_Status_leaky ==
    /\ pc = "sa_status"
    /\ \E r \in PlainResps :
        /\ Sends("GET /login/status", r)
        /\ IF r.exc
           THEN Returns(Raised("ConnectionError"))
           ELSE IF r.status # 200
                THEN Returns(JBool(FALSE))
                ELSE pc' = "sa_check" /\ UNCHANGED ret
    /\ UNCHANGED <<modernKeeps, authenticated, confirmedOn, captcha_text,
                   posted>>

\* lines 71-75: GET /login/status
SA_Status ==
    /\ pc = "sa_status"
    /\ \E r \in PlainResps :
        /\ Sends("GET /login/status", r)
        /\ IF r.exc \/ r.status # 200
           THEN Returns(JBool(FALSE))
           ELSE pc' = "sa_check" /\ UNCHANGED ret
    /\ UNCHANGED <<modernKeeps, authenticated, confirmedOn, captcha_text,
                   posted>>

\* lines 78-84: GET /login/checkLoginStatus
SA_Check ==
    /\ pc = "sa_check"
    /\ \E r \in CheckResps :
        /\ Sends("GET /login/checkLoginStatus", r)
        /\ IF r.exc
           THEN Returns(JBool(FALSE)) /\ UNCHANGED <<authenticated,
                                                     confirmedOn>>
           ELSE IF SA_Existing(r)
                THEN /\ authenticated' = TRUE
                     /\ confirmedOn' = session
                     /\ Returns(JBool(TRUE))
                ELSE /\ IF r.body.t # "dict"
                        THEN Returns(JBool(FALSE))
                        ELSE pc' = "sa_captcha" /\ UNCHANGED ret
                     /\ UNCHANGED <<authenticated, confirmedOn>>
    /\ UNCHANGED <<modernKeeps, captcha_text, posted>>

\* a captcha step that goes on with a new session
SA_Captcha_rotates ==
    /\ pc = "sa_captcha"
    /\ \E r \in PlainResps :
        /\ Sends("GET /login/captcha", r)
        /\ IF r.exc \/ r.status # 200
           THEN Returns(JBool(FALSE))
           ELSE pc' = "sa_text" /\ UNCHANGED ret
    /\ NewSession
    /\ UNCHANGED <<cls, display_type, port, base_url, use_socketio, use_ocr,
                   password, op, attempt, max_attempts, captcha, cand,
                   ncalls, usedSess, attSess, prevSess, restricted, prompted,
                   noneSoFar, solved, probed, contentVars>>
    /\ UNCHANGED <<authenticated, confirmedOn, captcha_text, posted>>

\* lines 87-92: GET /login/captcha
SA_Captcha ==
    /\ pc = "sa_captcha"
    /\ \E r \in PlainResps :
        /\ Sends("GET /login/captcha", r)
        /\ IF r.exc \/ r.status # 200
           THEN Returns(JBool(FALSE))
           ELSE pc' = "sa_text" /\ UNCHANGED ret
    /\ UNCHANGED <<modernKeeps, authenticated, confirmedOn, captcha_text,
                   posted>>

\* a captcha step that fetches a fresh captcha once when the text request
\* failed
SA_Text_retries ==
    /\ pc = "sa_text"
    /\ \E r \in TextResps :
        /\ Sends("GET /login/captchaText", r)
        /\ IF \/ r.exc
              \/ r.status # 200
              \/ r.body.t # "dict"
              \/ DictGet(r.body, "status", JNone) # JInt(200)
              \/ SA_CaptchaText(r.body).t # "str"
           THEN /\ IF Len(sent) < 4
                   THEN pc' = "sa_captcha" /\ UNCHANGED ret
                   ELSE Returns(JBool(FALSE))
                /\ UNCHANGED captcha_text
           ELSE /\ captcha_text' = SA_CaptchaText(r.body).s
                /\ pc' = "sa_post"
                /\ UNCHANGED ret
    /\ UNCHANGED <<modernKeeps, authenticated, confirmedOn, posted>>

\* lines 94-110: GET /login/captchaText, and _encode_password
SA_Text ==
    /\ pc = "sa_text"
    /\ \E r \in TextResps :
        /\ Sends("GET /login/captchaText", r)
        /\ IF \/ r.exc
              \/ r.status # 200
              \/ r.body.t # "dict"
              \/ DictGet(r.body, "status", JNone) # JInt(200)
              \/ SA_CaptchaText(r.body).t # "str"
           THEN Returns(JBool(FALSE)) /\ UNCHANGED captcha_text
           ELSE /\ captcha_text' = SA_CaptchaText(r.body).s
                /\ pc' = "sa_post"
                /\ UNCHANGED ret
    /\ UNCHANGED <<modernKeeps, authenticated, confirmedOn, posted>>

\* lines 111-128: POST /login/login
SA_Post ==
    /\ pc = "sa_post"
    /\ \E r \in LoginResps :
        /\ Sends("POST /login/login", r)
        /\ posted' = [pwd |-> SA_encode_password(password, captcha_text)]
        /\ IF ~r.exc /\ SA_LoginOk(r)
           THEN /\ authenticated' = TRUE
                /\ confirmedOn' = session
                /\ Returns(JBool(TRUE))
           ELSE /\ Returns(JBool(FALSE))
                /\ UNCHANGED <<authenticated, confirmedOn>>
    /\ UNCHANGED <<modernKeeps, captcha_text>>


(***************************************************************************)
(* Legacy client: login, login_with_retry, logout, is_authenticated        *)
(* (lg_webos_legacy_client.py 52-292, 443-465).                            *)
(***************************************************************************)

\* the captcha argument a caller passes to login()
CaptchaArgs == {None, S_4821, <<"4", "8">>}

\* what a step of a legacy login leaves alone
legacyKeeps ==
    <<cls, display_type, port, base_url, use_socketio, use_ocr, password, op,
      max_attempts, cand, captcha_text, ncalls, restricted, probed,
      contentVars>>

\* lines 52-114: _ocr_captcha; text is what Tesseract read, None when it
\* raised or is not installed
L_ocr_captcha(text) ==
    IF ~use_ocr \/ text = None THEN None
    ELSE IF Len(DigitsOf(text)) = 4 THEN DigitsOf(text) ELSE None

\* line 214: the typed captcha is refused
L_InvalidTyped(c) == Len(c) # 4 \/ ~IsDigit(c)

\* a login that takes every 200 answer for a success
L_Accepted_any200(r) == r.status = 200

\* lines 233-241: status 200 and response.text.strip() == "success"
L_Accepted(r) == r.status = 200 /\ Strip(r.body.s) = S_success

\* a retry loop that goes on with the session of the failed call
L_Finish_sameSession(ok) ==
    IF ok
    THEN /\ authenticated' = TRUE
         /\ confirmedOn' = session
         /\ Returns(JBool(TRUE))
         /\ KeepSession
         /\ UNCHANGED <<attempt, captcha>>
    ELSE IF op = "login_with_retry" /\ attempt < max_attempts
         THEN /\ KeepSession
              /\ authenticated' = FALSE
              /\ attempt' = attempt + 1
              /\ captcha' = None
              /\ pc' = "l_root"
              /\ UNCHANGED <<ret, confirmedOn>>
         ELSE /\ Returns(JBool(FALSE))
              /\ KeepSession
              /\ UNCHANGED <<authenticated, confirmedOn, attempt, captcha>>

\* login() returns ok.  Called from login_with_retry (lines 272-292) the
\* loop goes on: a True ends it, a False resets the session while attempts
\* remain
L_Finish(ok) ==
    IF ok
    THEN /\ authenticated' = TRUE
         /\ confirmedOn' = session
         /\ Returns(JBool(TRUE))
         /\ KeepSession
         /\ UNCHANGED <<attempt, captcha>>
    ELSE IF op = "login_with_retry" /\ attempt < max_attempts
         THEN /\ NewSession
              /\ authenticated' = FALSE
              /\ attempt' = attempt + 1
              /\ captcha' = None
              /\ pc' = "l_root"
              /\ UNCHANGED <<ret, confirmedOn>>
         ELSE /\ Returns(JBool(FALSE))
              /\ KeepSession
              /\ UNCHANGED <<authenticated, confirmedOn, attempt, captcha>>

\* lines 146-159: login(captcha, ...)
L_Login ==
    /\ cls = "legacy"
    /\ StartsCall("login")
    /\ \E c \in CaptchaArgs : captcha' = c
    /\ pc' = "l_root"
    /\ ret' = JNone
    /\ attempt' = 1
    /\ max_attempts' = 1
    /\ arg' = None
    /\ UNCHANGED <<clientVars, cand, captcha_text, nextSession, confirmedOn>>

\* lines 256-277: login_with_retry(max_attempts)
L_LoginWithRetry ==
    /\ cls = "legacy"
    /\ StartsCall("login_with_retry")
    /\ \E m \in 0..MaxBudget :
        /\ max_attempts' = m
        /\ IF 1 <= m
           THEN attempt' = 1 /\ pc' = "l_root" /\ ret' = JNone
           ELSE attempt' = 0 /\ Returns(JBool(FALSE))
    /\ captcha' = None
    /\ arg' = None
    /\ UNCHANGED <<clientVars, cand, captcha_text, nextSession, confirmedOn>>

\* lines 163-167: GET /
L_Root ==
    /\ pc = "l_root"
    /\ \E r \in PlainResps :
        /\ SendsFirst("GET /", r)
        /\ usedSess' = usedSess \cup {session}
        /\ attSess' = session
        /\ prevSess' = attSess
        /\ solved' = ""
        /\ noneSoFar' = IF attSess = 0 THEN noneSoFar
                        ELSE noneSoFar /\ solved = "none"
        /\ IF r.exc \/ r.status # 200
           THEN L_Finish(FALSE)
           ELSE /\ pc' = "l_login"
                /\ KeepSession
                /\ UNCHANGED <<authenticated, confirmedOn, attempt, captcha,
                               ret>>
    /\ UNCHANGED <<legacyKeeps, prompted, posted>>

\* lines 172-176: GET /login
L_LoginPage ==
    /\ pc = "l_login"
    /\ \E r \in PlainResps :
        /\ Sends("GET /login", r)
        /\ IF r.exc \/ r.status # 200
           THEN L_Finish(FALSE)
           ELSE /\ pc' = "l_captcha"
                /\ KeepSession
                /\ UNCHANGED <<authenticated, confirmedOn, attempt, captcha,
                               ret>>
    /\ UNCHANGED <<legacyKeeps, usedSess, attSess, prevSess, prompted,
                   noneSoFar, solved, posted>>

\* lines 181-194: GET /request/captchapng
L_Captcha ==
    /\ pc = "l_captcha"
    /\ \E r \in PlainResps :
        /\ Sends("GET /request/captchapng", r)
        /\ IF r.exc \/ r.status # 200
           THEN L_Finish(FALSE)
           ELSE /\ pc' = IF captcha # None THEN "l_post"
                         ELSE IF use_ocr THEN "l_solve" ELSE "l_manual"
                /\ KeepSession
                /\ UNCHANGED <<authenticated, confirmedOn, attempt, captcha,
                               ret>>
    /\ UNCHANGED <<legacyKeeps, usedSess, attSess, prevSess, prompted,
                   noneSoFar, solved, posted>>

\* lines 194-204: the OCR of the captcha image
L_Solve ==
    /\ pc = "l_solve"
    /\ \E text \in OcrTexts :
        LET c == L_ocr_captcha(text) IN
        /\ solved' = IF c = None THEN "none" ELSE "ok"
        /\ UNCHANGED noneSoFar
        /\ IF c # None
           THEN /\ captcha' = c
                /\ pc' = "l_post"
                /\ KeepSession
                /\ UNCHANGED <<authenticated, confirmedOn, attempt, ret>>
           ELSE L_Finish(FALSE)
    /\ UNCHANGED <<legacyKeeps, sent, resp, usedSess, attSess, prevSess,
                   prompted, posted>>

\* lines 206-216: the operator is asked
L_Manual ==
    /\ pc = "l_manual"
    /\ \E typed \in TypedTexts :
        /\ prompted' = TRUE
        /\ IF typed = None \/ L_InvalidTyped(Strip(typed))
           THEN L_Finish(FALSE)
           ELSE /\ captcha' = Strip(typed)
                /\ pc' = "l_post"
                /\ KeepSession
                /\ UNCHANGED <<authenticated, confirmedOn, attempt, ret>>
    /\ UNCHANGED <<legacyKeeps, sent, resp, usedSess, attSess, prevSess,
                   noneSoFar, solved, posted>>

\* lines 222-254: POST /login with the password and the captcha
L_Submit ==
    /\ pc = "l_post"
    /\ \E r \in SubmitResps :
        /\ Sends("POST /login", r)
        /\ posted' = [password |-> password, captcha |-> captcha]
        /\ restricted' = (restricted \/ (~r.exc /\ Contains(r.body.s, S_restricted)))
        /\ L_Finish(~r.exc /\ L_Accepted(r))
    /\ UNCHANGED <<cls, display_type, port, base_url, use_socketio, use_ocr,
                   password, op, max_attempts, cand, captcha_text, ncalls,
                   probed, contentVars>>
    /\ UNCHANGED <<usedSess, attSess, prevSess, prompted, noneSoFar, solved>>

\* lines 443-449: logout()
L_Logout ==
    /\ cls = "legacy"
    /\ StartsCall("logout")
    /\ pc' = "l_logout"
    /\ ret' = JNone
    /\ arg' = None
    /\ NoLoginFrame
    /\ UNCHANGED <<nextSession, confirmedOn>>

\* lines 450-456: GET /logout
L_LogoutGet ==
    /\ pc = "l_logout"
    /\ \E r \in PlainResps :
        /\ Sends("GET /logout", r)
        /\ IF r.exc
           THEN Returns(JBool(FALSE)) /\ UNCHANGED authenticated
           ELSE authenticated' = FALSE /\ Returns(JBool(r.status = 200))
    /\ UNCHANGED <<legacyKeeps, session, nextSession, attempt, captcha,
                   usedSess, attSess, prevSess, confirmedOn, prompted,
                   noneSoFar, solved, posted>>

\* lines 458-465: is_authenticated()
is_authenticated == authenticated


(***************************************************************************)
(* Content operations of the unified client                                *)
(* (lg_webos_unified_client.py 402-555).                                   *)
(***************************************************************************)

S_d1 == <<"d", "1">>
S_d2 == <<"d", "2">>
S_dX == <<"d", "X">>
S_PLAY_LIST == <<"P", "L", "A", "Y", "_", "L", "I", "S", "T">>
S_playlist == <<"p", "l", "a", "y", "l", "i", "s", "t">>
S_signage_dir == <<"/", "m", "n", "t", "/", "l", "g", "/", "a", "p", "p", "s", "t", "o", "r", "e", "/", "s", "i", "g", "n", "a", "g", "e", "/">>
S_dsmp == <<"c", "o", "m", ".", "w", "e", "b", "o", "s", ".", "a", "p", "p", ".", "d", "s", "m", "p">>

\* file names on the display, and the names a caller asks for
FileNames == {<<"A">>, <<"a">>}
PlayArgs == {<<"A">>, <<"a">>, <<"/", "A">>}

Device(id) == JDict([deviceId |-> JStr(id)])

StorageJson(ids) ==
    JDict([data |-> JDict([payload |-> JDict([devices |->
        JList([i \in 1..Len(ids) |-> Device(ids[i])])])])])

\* answers to GET /storage/list
StorageResps ==
    { Exc,
      Http(500, JNone),
      Http(200, NotJson),
      Http(200, StorageJson(<<>>)),
      Http(200, StorageJson(<<S_d1>>)),
      Http(200, StorageJson(<<S_d1, S_d2>>)),
      Http(200, JDict([status |-> JInt(200)])),
      Http(200, JDict([data |-> JNone])) }

Entry(name, udn) ==
    JDict([fileName |-> JStr(name), mediaType |-> JStr(S_PLAY_LIST),
           fullPath |-> JStr(<<"/">> \o name), udn |-> JStr(udn)])

Entries == {Entry(n, u) : n \in FileNames, u \in {S_d1, S_dX}}

Listings == UNION {[1..n -> Entries] : n \in 0..MaxEntries}

ContentJson(l) ==
    JDict([data |-> JDict([payload |-> JDict([results |-> JList(l)])])])

\* answers to GET /content/list
ContentResps ==
    { Exc, Http(500, JNone), Http(200, NotJson),
      Http(200, JDict([status |-> JInt(200)])) }
    \cup {Http(200, ContentJson(l)) : l \in Listings}

\* answers to PUT /content/play/dsmp and GET /config/getConfigs
PlayResps ==
    { Exc,
      Http(500, JNone),
      Http(200, NotJson),
      Http(200, JDict([status |-> JInt(200)])),
      Http(200, JDict([status |-> JInt(500)])) }

AllTypes == <<"VIDEO", "IMAGE", "TEMPLATE", "SUPER_SIGN", "PLAY_LIST">>

\* lines 434-451 (and lg_webos_client.py 153-172): what _request returns
\* for the answer r: the parsed body of a 200 answer, None otherwise
RequestResult(r) ==
    IF r.exc \/ r.status # 200 \/ r.body.t = "notjson" THEN JNone ELSE r.body

\* v.get(k, default) of an expression chain: a receiver that is no dict
\* raises AttributeError, and so does a receiver that already raised
ChainGet(v, k, default) ==
    IF v.t # "dict" THEN Raised("AttributeError") ELSE DictGet(v, k, default)

\* line 491: the deviceIds of the storage answer
U_StorageIds(response) ==
    LET devices ==
            ChainGet(ChainGet(ChainGet(response, "data", EmptyDict),
                              "payload", EmptyDict),
                     "devices", JList(<<>>)) IN
    IF devices.t = "raise" THEN devices
    ELSE IF devices.t # "list" THEN Raised("TypeError")
    ELSE IF \E i \in 1..Len(devices.l) : devices.l[i].t # "dict"
         THEN Raised("AttributeError")
         ELSE JList([i \in 1..Len(devices.l) |->
                        DictGet(devices.l[i], "deviceId", JNone)])

\* a content query that forgets the device filter
ContentQuery_unfiltered(filters, ids) ==
    [from |-> "MEDIA", orderBy |-> "FILE_NAME", desc |-> FALSE, limit |-> 100,
     where |-> filters, filter |-> <<>>]

\* lines 494-502: the reqParam of the content query
ContentQuery(filters, ids) ==
    [from |-> "MEDIA", orderBy |-> "FILE_NAME", desc |-> FALSE, limit |-> 100,
     where |-> filters, filter |-> ids]

\* lines 506-508: what get_media returns for the content answer
U_Results(response) ==
    IF ~Truthy(response) THEN JNone
    ELSE ChainGet(ChainGet(ChainGet(response, "data", EmptyDict),
                           "payload", EmptyDict),
                  "results", JNone)

\* line 534: next((obj for obj in media if obj['fileName'] == name), None)
U_Select(m, name) ==
    LET hits == {i \in 1..Len(m.l) : m.l[i].d.fileName.s = name} IN
    IF hits = {} THEN JNone
    ELSE m.l[CHOOSE i \in hits : \A j \in hits : i <= j]

\* lines 536-539: the reqParam of the play request
PlayCommand(type, src) == [id |-> S_dsmp, type |-> type, src |-> src]

\* line 542: response and response.get('status') == 200
U_PlayResult(response) ==
    IF ~Truthy(response) THEN response
    ELSE IF response.t # "dict" THEN Raised("AttributeError")
    ELSE JBool(DictGet(response, "status", JNone) = JInt(200))

\* a normalisation that prefixes every name
U_FullPath_always(name) == S_signage_dir \o name

\* lines 545-546: a relative name is put under the signage directory
U_FullPath(name) ==
    IF ~StartsWith(name, <<"/">>) THEN S_signage_dir \o name ELSE name

\* what a step of a content operation leaves alone
contentKeeps ==
    <<cls, display_type, port, base_url, session, authenticated,
      use_socketio, use_ocr, password, op, attempt, max_attempts, captcha,
      cand, captcha_text, arg, nextSession, ncalls, usedSess, attSess,
      prevSess, confirmedOn, restricted, prompted, noneSoFar, solved, probed,
      posted>>

\* get_media returns v: to the caller, or into play_playlist (lines 532-539)
U_MediaReturns(v) ==
    IF op = "get_media" \/ v.t = "raise"
    THEN /\ Returns(v)
         /\ UNCHANGED <<media, selected>>
    ELSE /\ media' = v
         /\ IF v.t # "list"
            THEN Returns(Raised("TypeError")) /\ UNCHANGED selected
            ELSE /\ selected' = U_Select(v, arg)
                 /\ IF U_Select(v, arg).t # "dict"
                    THEN Returns(Raised("TypeError"))
                    ELSE pc' = "u_play" /\ UNCHANGED ret

\* lines 474-481: get_media(filters)
U_GetMedia ==
    /\ cls = "unified"
    /\ StartsCall("get_media")
    /\ arg' = None
    /\ IF display_type # "modern"
       THEN Returns(JNone)
       ELSE pc' = "u_storage" /\ ret' = JNone
    /\ NoLoginFrame
    /\ UNCHANGED <<nextSession, confirmedOn>>

\* lines 484-491: GET /storage/list through _request
U_Storage ==
    /\ pc = "u_storage"
    /\ IF ~authenticated
       THEN /\ Returns(Raised("NotAuthenticated"))
            /\ UNCHANGED <<sent, resp, storage_ids, req_param, media,
                           selected>>
       ELSE \E r \in StorageResps :
            /\ Sends("GET /storage/list", r)
            /\ req_param' = JNone
            /\ IF ~Truthy(RequestResult(r))
               THEN U_MediaReturns(JNone) /\ UNCHANGED storage_ids
               ELSE IF U_StorageIds(RequestResult(r)).t = "raise"
                    THEN /\ U_MediaReturns(U_StorageIds(RequestResult(r)))
                         /\ UNCHANGED storage_ids
                    ELSE /\ storage_ids' = U_StorageIds(RequestResult(r)).l
                         /\ pc' = "u_content"
                         /\ UNCHANGED <<ret, media, selected>>
    /\ UNCHANGED <<contentKeeps, sio>>

\* lines 494-508: GET /content/list through _request
U_Content ==
    /\ pc = "u_content"
    /\ \E r \in ContentResps :
        /\ Sends("GET /content/list", r)
        /\ req_param' =
               ContentQuery(IF op = "play_playlist" THEN <<"PLAY_LIST">>
                            ELSE AllTypes, storage_ids)
        /\ U_MediaReturns(U_Results(RequestResult(r)))
    /\ UNCHANGED <<contentKeeps, sio, storage_ids>>

\* lines 536-542: PUT /content/play/dsmp through _request
U_Play ==
    /\ pc = "u_play"
    /\ \E r \in PlayResps :
        /\ Sends("PUT /content/play/dsmp", r)
        /\ req_param' = PlayCommand(selected.d.mediaType.s,
                                    selected.d.fullPath.s)
        /\ Returns(U_PlayResult(RequestResult(r)))
    /\ UNCHANGED <<contentKeeps, sio, storage_ids, media, selected>>

\* lines 402-425: _connect_socketio_if_needed opens the channel
U_Connect ==
    /\ pc = "u_connect"
    /\ \E outcome \in {"import_error", "connect_error", "connected"} :
        /\ sio' = CASE outcome = "import_error" -> sio
                    [] outcome = "connect_error" -> "created"
                    [] OTHER -> "connected"
        /\ IF outcome = "connected"
           THEN pc' = "u_emit" /\ UNCHANGED ret
           ELSE Returns(JBool(FALSE))
    /\ UNCHANGED <<contentKeeps, storage_ids, media, selected, sent, resp,
                   req_param>>

\* lines 458-470, 555: sio.emit("PalmServiceBridge.call", message); without a
\* sio attribute the emit raises, on a client that never connected it raises
\* or is dropped, depending on the python-socketio release
U_Emit ==
    /\ pc = "u_emit"
    /\ \E outcome \in {"sent", "raised"} :
        /\ sio = "unset" => outcome = "raised"
        /\ IF outcome = "sent"
           THEN /\ Sends("EMIT PalmServiceBridge.call", Http(0, JNone))
                /\ req_param' = PlayCommand(S_playlist, U_FullPath(arg))
                /\ Returns(JBool(TRUE))
           ELSE /\ Returns(JBool(FALSE))
                /\ UNCHANGED <<sent, resp, req_param>>
    /\ UNCHANGED <<contentKeeps, sio, storage_ids, media, selected>>

\* lines 510-555: play_playlist(playlist_name)
U_PlayPlaylist ==
    /\ cls = "unified"
    /\ StartsCall("play_playlist")
    /\ \E name \in PlayArgs : arg' = name
    /\ IF ~authenticated
       THEN Returns(Raised("NotAuthenticated"))
       ELSE /\ ret' = JNone
            /\ pc' = IF display_type = "modern" THEN "u_storage"
                     ELSE IF use_socketio /\ sio = "unset" THEN "u_connect"
                     ELSE "u_emit"
    /\ NoLoginFrame
    /\ UNCHANGED <<nextSession, confirmedOn>>


(***************************************************************************)
(* Legacy client: play_playlist over Socket.io                             *)
(* (lg_webos_legacy_client.py 467-584).                                    *)
(***************************************************************************)

\* lines 565-566: a relative path is put under the signage directory
L_FullPath(path) ==
    IF ~StartsWith(path, <<"/">>) THEN S_signage_dir \o path ELSE path

\* lines 550-584, 518-522: play_playlist(playlist_path); the call is not
\* guarded by the authenticated flag
L_PlayPlaylist ==
    /\ cls = "legacy"
    /\ StartsCall("play_playlist")
    /\ \E path \in PlayArgs : arg' = path
    /\ ret' = JNone
    /\ pc' = IF sio = "unset" THEN "l_connect" ELSE "l_emit"
    /\ NoLoginFrame
    /\ UNCHANGED <<nextSession, confirmedOn>>

\* lines 467-504: connect_socketio; a failure makes _palm_service_call
\* return None and play_playlist False
L_Connect ==
    /\ pc = "l_connect"
    /\ \E outcome \in {"import_error", "connect_error", "connected"} :
        /\ sio' = CASE outcome = "import_error" -> sio
                    [] outcome = "connect_error" -> "created"
                    [] OTHER -> "connected"
        /\ IF outcome = "connected"
           THEN pc' = "l_emit" /\ UNCHANGED ret
           ELSE Returns(JBool(FALSE))
    /\ UNCHANGED <<contentKeeps, storage_ids, media, selected, sent, resp,
                   req_param>>

\* lines 524-548, 584: sio.emit("PalmServiceBridge.call", message); the
\* emit raises, or on a client that never connected raises or is dropped
L_Emit ==
    /\ pc = "l_emit"
    /\ \E outcome \in {"sent", "raised"} :
        /\ IF outcome = "sent"
           THEN /\ Sends("EMIT PalmServiceBridge.call", Http(0, JNone))
                /\ req_param' = PlayCommand(S_playlist, L_FullPath(arg))
                /\ Returns(JBool(TRUE))
           ELSE /\ Returns(JBool(FALSE))
                /\ UNCHANGED <<sent, resp, req_param>>
    /\ UNCHANGED <<contentKeeps, sio, storage_ids, media, selected>>


(***************************************************************************)
(* Content operations of the standalone client                             *)
(* (lg_webos_client.py 135-292).                                           *)
(***************************************************************************)

\* `v.get(k) if v else None`
CondGet(v, k) ==
    IF ~Truthy(v) THEN JNone
    ELSE IF v.t # "dict" THEN Raised("AttributeError")
    ELSE DictGet(v, k, JNone)

\* lines 202-206: get_storage_list reads the answer without testing it
SA_Devices(response) ==
    IF response.t # "dict" THEN Raised("AttributeError")
    ELSE CondGet(CondGet(DictGet(response, "data", JNone), "payload"),
                 "devices")

\* lines 216-219: get_storage_ids
SA_StorageIds(devices) ==
    IF devices.t = "raise" THEN devices
    ELSE IF ~Truthy(devices) THEN JList(<<>>)
    ELSE IF devices.t # "list" THEN Raised("TypeError")
    ELSE IF \E i \in 1..Len(devices.l) : devices.l[i].t # "dict"
         THEN Raised("AttributeError")
         ELSE JList([i \in 1..Len(devices.l) |->
                        DictGet(devices.l[i], "deviceId", JNone)])

\* lines 258-263: what get_media returns for the content answer
SA_Results(response) ==
    CondGet(CondGet(CondGet(response, "data"), "payload"), "results")

\* line 183: what get_system_info returns
SA_SystemInfo(response) == CondGet(response, "data")

\* lines 290-292: what play_media returns
SA_PlayResult(response) ==
    IF ~Truthy(response) THEN JBool(FALSE)
    ELSE IF response.t # "dict" THEN Raised("AttributeError")
    ELSE JBool(DictGet(response, "status", JNone) = JInt(200))

\* lines 186-235: get_storage_list(), get_storage_ids(), get_media(filters)
SA_StorageCall ==
    /\ cls = "standalone"
    /\ \E name \in {"get_storage_list", "get_storage_ids", "get_media"} :
        StartsCall(name)
    /\ arg' = None
    /\ pc' = "sa_storage"
    /\ ret' = JNone
    /\ NoLoginFrame
    /\ UNCHANGED <<nextSession, confirmedOn>>

\* lines 193-219: GET /storage/list through _request
SA_Storage ==
    /\ pc = "sa_storage"
    /\ IF ~authenticated
       THEN /\ Returns(Raised("NotAuthenticated"))
            /\ UNCHANGED <<sent, resp, storage_ids>>
       ELSE \E r \in StorageResps :
            LET devices == SA_Devices(RequestResult(r))
                ids == SA_StorageIds(devices) IN
            /\ Sends("GET /storage/list", r)
            /\ IF op = "get_storage_list"
               THEN Returns(devices) /\ UNCHANGED storage_ids
               ELSE IF op = "get_storage_ids" \/ ids.t = "raise"
                    THEN Returns(ids) /\ UNCHANGED storage_ids
                    ELSE /\ storage_ids' = ids.l
                         /\ pc' = "sa_content"
                         /\ UNCHANGED ret
    /\ UNCHANGED <<contentKeeps, sio, media, selected, req_param>>

\* lines 237-263: GET /content/list through _request
SA_Content ==
    /\ pc = "sa_content"
    /\ \E r \in ContentResps :
        /\ Sends("GET /content/list", r)
        /\ req_param' = ContentQuery(AllTypes, storage_ids)
        /\ Returns(SA_Results(RequestResult(r)))
    /\ UNCHANGED <<contentKeeps, sio, storage_ids, media, selected>>

\* lines 175-183, 265-287: get_system_info(), play_media(type, src)
SA_SimpleCall ==
    /\ cls = "standalone"
    /\ \/ /\ StartsCall("get_system_info")
          /\ arg' = None
       \/ /\ StartsCall("play_media")
          /\ \E src \in PlayArgs : arg' = src
    /\ pc' = "sa_request"
    /\ ret' = JNone
    /\ NoLoginFrame
    /\ UNCHANGED <<nextSession, confirmedOn>>

\* a _request that goes to the network whatever the flag says
SA_Request_unguarded ==
    /\ pc = "sa_request"
    /\ \E r \in PlayResps :
        IF op = "play_media"
        THEN /\ Sends("PUT /content/play/dsmp", r)
             /\ req_param' = PlayCommand(S_PLAY_LIST, arg)
             /\ Returns(SA_PlayResult(RequestResult(r)))
        ELSE /\ Sends("GET /config/getConfigs", r)
             /\ req_param' = JNone
             /\ Returns(SA_SystemInfo(RequestResult(r)))
    /\ UNCHANGED <<contentKeeps, sio, storage_ids, media, selected>>

\* lines 182, 289: the one request of get_system_info or play_media
SA_Request ==
    /\ pc = "sa_request"
    /\ IF ~authenticated
       THEN /\ Returns(Raised("NotAuthenticated"))
            /\ UNCHANGED <<sent, resp, req_param>>
       ELSE \E r \in PlayResps :
            IF op = "play_media"
            THEN /\ Sends("PUT /content/play/dsmp", r)
                 /\ req_param' = PlayCommand(S_PLAY_LIST, arg)
                 /\ Returns(SA_PlayResult(RequestResult(r)))
            ELSE /\ Sends("GET /config/getConfigs", r)
                 /\ req_param' = JNone
                 /\ Returns(SA_SystemInfo(RequestResult(r)))
    /\ UNCHANGED <<contentKeeps, sio, storage_ids, media, selected>>

(***************************************************************************)
(* The clients after construction, and the calls a caller makes.           *)
(***************************************************************************)

\* __init__ of the three classes
Init ==
    /\ cls \in {"standalone", "legacy", "unified"}
    /\ password \in Passwords
    /\ display_type \in
           IF cls = "unified" THEN {"None", "modern", "legacy"} ELSE {"None"}
    /\ port \in IF cls = "unified" THEN {0} \cup Ports ELSE {0}
    /\ base_url \in IF cls = "unified" THEN {0} ELSE Ports
    /\ use_ocr \in IF cls = "legacy" THEN BOOLEAN ELSE {FALSE}
    /\ session = 1
    /\ authenticated = FALSE
    /\ use_socketio = FALSE
    /\ sio = "unset"
    /\ pc = "idle"
    /\ op = "init"
    /\ attempt = 0
    /\ max_attempts = 0
    /\ captcha = None
    /\ cand = 0
    /\ captcha_text = None
    /\ arg = None
    /\ storage_ids = <<>>
    /\ media = JNone
    /\ selected = JNone
    /\ ret = JNone
    /\ nextSession = 2
    /\ ncalls = 0
    /\ sent = <<>>
    /\ usedSess = {}
    /\ attSess = 0
    /\ prevSess = 0
    /\ resp = NoResp
    /\ confirmedOn = 0
    /\ restricted = FALSE
    /\ prompted = FALSE
    /\ noneSoFar = TRUE
    /\ solved = ""
    /\ probed = FALSE
    /\ posted = NoPost
    /\ req_param = JNone

Next ==
    \/ U_Login
    \/ D_Status
    \/ D_Status2
    \/ D_Text
    \/ D_Login
    \/ D_Png
    \/ UM_Status
    \/ UM_Check
    \/ UM_Captcha
    \/ UM_Text
    \/ UM_Post
    \/ UL_Root
    \/ UL_LoginPage
    \/ UL_Captcha
    \/ UL_Solve
    \/ UL_Manual
    \/ UL_Submit
    \/ U_GetMedia
    \/ U_PlayPlaylist
    \/ U_Storage
    \/ U_Content
    \/ U_Play
    \/ U_Connect
    \/ U_Emit
    \/ SA_Login
    \/ SA_Status
    \/ SA_Check
    \/ SA_Captcha
    \/ SA_Text
    \/ SA_Post
    \/ SA_StorageCall
    \/ SA_Storage
    \/ SA_Content
    \/ SA_SimpleCall
    \/ SA_Request
    \/ L_Login
    \/ L_LoginWithRetry
    \/ L_Root
    \/ L_LoginPage
    \/ L_Captcha
    \/ L_Solve
    \/ L_Manual
    \/ L_Submit
    \/ L_Logout
    \/ L_LogoutGet
    \/ L_PlayPlaylist
    \/ L_Connect
    \/ L_Emit

Spec == Init /\ [][Next]_vars


(***************************************************************************)
(* Properties.                                                             *)
(***************************************************************************)

\* the call in progress (or the last one) is a legacy login with a retry loop
LegacyLoop ==
    \/ cls = "unified" /\ op = "login" /\ display_type = "legacy"
    \/ cls = "legacy" /\ op = "login_with_retry"

\* request i of the log went to endpoint ep
SentTo(i, ep) == i \in 1..Len(sent) /\ sent[i].ep = ep

\* C1: in the legacy retry loops, once the answer to a credentials POST
\* contained "restricted" the login is over: no further attempt is started
\* and no further request is sent in that call.
C1_RestrictedEndsLogin ==
    [][(LegacyLoop /\ restricted /\ restricted')
           => (attempt' = attempt /\ sent' = sent)]_vars

\* a modern play_playlist call that listed the playlists and found none
\* whose fileName is the name asked for
NoListedMatch ==
    /\ cls = "unified"
    /\ op = "play_playlist"
    /\ display_type = "modern"
    /\ media.t = "list"
    /\ \A i \in 1..Len(media.l) : media.l[i].d.fileName.s # arg

\* C2: play_playlist(name) on a modern identity plays only an entry whose
\* fileName is exactly name; when no listed entry has that fileName the call
\* returns a failure, raises nothing and sends no play request.
C2_NoMatchIsFailure ==
    /\ (cls = "unified" /\ op = "play_playlist" /\ selected.t = "dict")
           => selected.d.fileName.s = arg
    /\ (NoListedMatch /\ pc = "idle")
           => /\ ret = JBool(FALSE)
              /\ \A i \in 1..Len(sent) : sent[i].ep # "PUT /content/play/dsmp"

\* the udn values the storage query of the current call returned
ListedIds == {storage_ids[i] : i \in 1..Len(storage_ids)}

\* C3: the list get_media returns holds no entry whose udn is not among the
\* device ids the storage query of the same call returned.
C3_ForeignEntriesExcluded ==
    (op = "get_media" /\ pc = "idle" /\ ret.t = "list")
        => \A i \in 1..Len(ret.l) : ret.l[i].d.udn \in ListedIds

\* C4: in the unified legacy login every attempt after the first starts on
\* a session other than the one the attempt before it started on.
C4_FreshSessionPerAttempt ==
    (cls = "unified" /\ op = "login" /\ prevSess # 0) => attSess # prevSess

\* the unified legacy login has returned; the OCR gave nothing in every
\* attempt before the last, read four digits in the last one, and the
\* display answered that attempt's credentials with "success"
FailsThenSuccess ==
    /\ cls = "unified"
    /\ op = "login"
    /\ display_type = "legacy"
    /\ pc = "idle"
    /\ noneSoFar
    /\ solved = "ok"
    /\ ~resp.exc
    /\ resp.body = JStr(S_success)

\* C5: when the OCR gives nothing on the first N attempts (N below the
\* budget) and reads the captcha on attempt N+1, which the display answers
\* with "success", the login returns True and has used exactly N+1
\* sessions, one per attempt.
C5_OneSessionPerAttempt ==
    FailsThenSuccess
        => /\ ret = JBool(TRUE)
           /\ attempt <= max_attempts
           /\ Cardinality(usedSess) = attempt

\* the calls that log in
LoginOps == {"login", "login_with_retry"}

\* the answer to a modern credentials POST reports success: its status
\* field is 200 and the result flag under data is true
LoginConfirmed(r) ==
    /\ ~r.exc
    /\ r.body.t = "dict"
    /\ "status" \in DOMAIN r.body.d
    /\ r.body.d.status = JInt(200)
    /\ "data" \in DOMAIN r.body.d
    /\ r.body.d.data.t = "dict"
    /\ "result" \in DOMAIN r.body.d.data.d
    /\ r.body.d.data.d.result = JBool(TRUE)

\* the answer to a checkLoginStatus request reports an existing session
ExistingReported(exc, body) ==
    /\ ~exc
    /\ body.t = "dict"
    /\ "data" \in DOMAIN body.d
    /\ body.d.data = JBool(TRUE)

\* the last request of the call was answered with a confirmation of the
\* login: an existing session, a successful modern login, or "success"
ConfirmedByDisplay ==
    /\ sent # <<>>
    /\ LET ep == sent[Len(sent)].ep IN
       \/ /\ ep = "GET /login/checkLoginStatus"
          /\ ExistingReported(resp.exc, resp.body)
       \/ /\ ep = "POST /login/login"
          /\ LoginConfirmed(resp)
       \/ /\ ep = "POST /login"
          /\ ~resp.exc
          /\ resp.body.t = "str"
          /\ Strip(resp.body.s) = S_success

\* C6: in all three clients the authenticated flag is false at
\* construction, turns from false to true only in the step that received an
\* answer confirming the login, and no login call returns True without such
\* an answer.
C6_AuthenticatedOnlyOnConfirmation ==
    /\ [](ncalls = 0 => ~authenticated)
    /\ []((pc = "idle" /\ op \in LoginOps /\ ret = JBool(TRUE))
             => ConfirmedByDisplay)
    /\ [][(~authenticated /\ authenticated') => ConfirmedByDisplay']_vars

\* a legacy login that the display confirmed with "success"
C6_Witness ==
    /\ pc = "idle"
    /\ op \in LoginOps
    /\ ret = JBool(TRUE)
    /\ authenticated
    /\ ConfirmedByDisplay
    /\ sent[Len(sent)].ep = "POST /login"

\* C7: in the unified client the authenticated flag is false right after
\* the session is replaced, and whenever it is true the current session is
\* the one the display confirmed the login on.
C7_ReplacedSessionIsLoggedOut ==
    /\ []((cls = "unified" /\ authenticated) => confirmedOn = session)
    /\ [][(cls = "unified" /\ session' # session) => ~authenticated']_vars

\* C8: after LGWebOSLegacyClient.logout has returned, is_authenticated() is
\* false, whatever the GET /logout request met.
C8_LogoutClearsFlag ==
    (cls = "legacy" /\ op = "logout" /\ pc = "idle") => ~is_authenticated

\* the call in progress (or the last one) is a modern login
ModernLogin ==
    /\ op = "login"
    /\ \/ cls = "standalone"
       \/ cls = "unified" /\ display_type = "modern"

\* the captcha text the display served in the current call
ServedText ==
    LET i == CHOOSE i \in 1..Len(sent) : sent[i].ep = "GET /login/captchaText"
        d == sent[i].body.d.data
    IN IF d.t = "dict" THEN d.d.text.s ELSE d.s

\* C9: the pwd a modern login posts is SHA512hex(SHA512hex(password) +
\* captchaText) for the captcha text served earlier in the same call; the
\* call returns True, with the flag set, exactly when the answer has status
\* 200 and a true data.result, and returns False on every other answer.
C9_DigestAndVerdict ==
    (ModernLogin /\ posted # NoPost)
        => /\ \E i \in 1..Len(sent) : sent[i].ep = "GET /login/captchaText"
           /\ posted = [pwd |-> Sha512Hex(Sha512Hex(password) \o ServedText)]
           /\ pc = "idle"
           /\ ret = JBool(LoginConfirmed(resp))
           /\ LoginConfirmed(resp) => authenticated

\* a unified modern login that posted the digest of the served text "1357"
\* and was confirmed
C9_Witness ==
    /\ ModernLogin
    /\ cls = "unified"
    /\ posted # NoPost
    /\ pc = "idle"
    /\ ServedText = S_1357
    /\ ret = JBool(TRUE)

\* the display reported an existing session in the current call
ExistingSessionReported ==
    \E i \in 1..Len(sent) :
        /\ sent[i].ep = "GET /login/checkLoginStatus"
        /\ ExistingReported(sent[i].exc, sent[i].body)

\* C10: when checkLoginStatus reports an existing session, a modern login
\* returns True at once: the call sends no captcha image request, no
\* captchaText request and no credentials POST.
C10_ExistingSessionShortCut ==
    (ModernLogin /\ ExistingSessionReported)
        => /\ pc = "idle"
           /\ ret = JBool(TRUE)
           /\ authenticated
           /\ posted = NoPost
           /\ \A i \in 1..Len(sent) :
                  sent[i].ep \in {"GET /login/status",
                                  "GET /login/checkLoginStatus"}

\* a standalone login that found an existing session
C10_Witness ==
    /\ ModernLogin
    /\ cls = "standalone"
    /\ ExistingSessionReported
    /\ pc = "idle"


\* the last request of a modern login fetched the captcha (its image or its
\* text) and was answered with a status other than 200 or, for the text,
\* with a body that is no JSON
FetchCaptchaFailed ==
    /\ ModernLogin
    /\ sent # <<>>
    /\ sent[Len(sent)].sess # 0
    /\ ~resp.exc
    /\ \/ /\ sent[Len(sent)].ep = "GET /login/captcha"
          /\ resp.status # 200
       \/ /\ sent[Len(sent)].ep = "GET /login/captchaText"
          /\ (resp.status # 200 \/ resp.body = NotJson)

\* C11: when the captcha image request or the captchaText request of a
\* modern login is answered with a non-200 status, or the captchaText body is
\* no JSON, the login returns False and sends no credentials POST.
C11_FetchCaptchaFailureEndsLogin ==
    FetchCaptchaFailed
        => /\ pc = "idle"
           /\ ret = JBool(FALSE)
           /\ posted = NoPost


\* the labels of the detector's probes
DetectPcs == {"d_status", "d_status2", "d_text", "d_login", "d_png"}

Detecting == pc \in DetectPcs

\* the candidates in the order the detector has to try them
ProbeOrder ==
    << [port |-> 3777, type |-> "modern"],
       [port |-> 443, type |-> "modern"],
       [port |-> 443, type |-> "legacy"] >>

\* the log holds detection probes
ProbeLog == sent # <<>> /\ sent[1].sess = 0

\* the candidate the probe log belongs to: the one under test, or the one
\* before it while the first probe of the next is still to be sent
LogCand == IF pc \in {"d_status", "d_login"} THEN cand - 1 ELSE cand

\* the probes of a modern candidate met the discriminant the detector
\* tests: /login/status answered 200, and /login/captchaText answered 200 or
\* 404 with a JSON value in which Python finds "status" and "message"
ModernDiscriminant(log) ==
    /\ Len(log) = 3
    /\ log[1].ep = "GET /login/status"
    /\ ~log[1].ans.exc /\ log[1].ans.status = 200
    /\ log[2].ep = "GET /login/status"
    /\ ~log[2].ans.exc
    /\ log[3].ep = "GET /login/captchaText"
    /\ ~log[3].ans.exc /\ log[3].ans.status \in {200, 404}
    /\ LET data == log[3].ans.body IN
       \/ /\ data.t = "dict"
          /\ {"status", "message"} \subseteq DOMAIN data.d
       \/ /\ data.t = "list"
          /\ {JStr(S_status), JStr(S_message)}
                 \subseteq {data.l[i] : i \in 1..Len(data.l)}
       \/ /\ data.t = "str"
          /\ Contains(data.s, S_status)
          /\ Contains(data.s, S_message)

\* the probes of a legacy candidate met its discriminant: /login answered
\* 200 with an HTML content type, and /request/captchapng 200 or 404
LegacyDiscriminant(log) ==
    /\ Len(log) = 2
    /\ log[1].ep = "GET /login"
    /\ ~log[1].ans.exc /\ log[1].ans.status = 200
    /\ Contains(log[1].ans.ctype, S_text_html)
    /\ log[2].ep = "GET /request/captchapng"
    /\ ~log[2].ans.exc /\ log[2].ans.status \in {200, 404}

Satisfied(log, type) ==
    IF type = "modern" THEN ModernDiscriminant(log)
    ELSE LegacyDiscriminant(log)

\* C12: the detector probes the candidates in the order (3777, modern),
\* (443, modern), (443, legacy); it moves to the next candidate only when
\* the discriminant of the current one failed, returns the first candidate
\* whose discriminant is satisfied, and sends no probe after that.
C12_FirstSatisfiedCandidateWins ==
    /\ []((op = "login" /\ ProbeLog)
            => /\ LogCand \in 1..Len(ProbeOrder)
               /\ \A i \in 1..Len(sent) :
                      /\ sent[i].port = ProbeOrder[LogCand].port
                      /\ sent[i].ep \in
                             IF ProbeOrder[LogCand].type = "modern"
                             THEN {"GET /login/status",
                                   "GET /login/captchaText"}
                             ELSE {"GET /login", "GET /request/captchapng"})
    /\ []((Detecting /\ ~probed) => cand = 1)
    /\ [][(Detecting /\ cand' # cand)
             => /\ cand' = cand + 1
                /\ Detecting'
                /\ ~Satisfied(sent', ProbeOrder[cand].type)]_vars
    /\ [][(Detecting /\ sent' # sent
              /\ Satisfied(sent', ProbeOrder[cand].type))
             => /\ ~Detecting'
                /\ display_type' = ProbeOrder[cand].type
                /\ port' = ProbeOrder[cand].port]_vars
    /\ [][(~Detecting /\ ncalls' = ncalls)
             => /\ ~Detecting'
                /\ (sent' = sent \/ sent'[Len(sent')].sess # 0)]_vars

\* the detector gave up the first two candidates and returned the third
C12_Witness ==
    /\ op = "login"
    /\ ~Detecting
    /\ ProbeLog
    /\ cand = 3
    /\ Satisfied(sent, "legacy")
    /\ display_type = "legacy"
    /\ port = 443


\* C13: a transport error on a probe never reaches the caller and never
\* stops the detection: the detector goes on with the next candidate, and
\* when the last candidate has failed it returns (modern, 3777).
C13_ProbeErrorsAreNotFatal ==
    /\ [][(Detecting /\ resp'.exc)
             => /\ pc' # "idle"
                /\ ret'.t # "raise"
                /\ IF cand < Len(ProbeOrder)
                   THEN /\ cand' = cand + 1
                        /\ pc' = IF ProbeOrder[cand'].type = "modern"
                                 THEN "d_status"
                                 ELSE "d_login"
                   ELSE /\ ~Detecting'
                        /\ display_type' = "modern"
                        /\ port' = 3777]_vars
    /\ [][(Detecting /\ ~Detecting'
              /\ ~Satisfied(sent', ProbeOrder[cand].type))
             => /\ cand = Len(ProbeOrder)
                /\ display_type' = "modern"
                /\ port' = 3777
                /\ base_url' = 3777]_vars

\* the last probe of the last candidate met a transport error and the
\* login goes on as a modern login on port 3777
C13_Witness ==
    /\ op = "login"
    /\ ProbeLog
    /\ cand = Len(ProbeOrder)
    /\ sent[Len(sent)].ans.exc
    /\ pc = "um_status"
    /\ display_type = "modern"
    /\ port = 3777


\* the unified client holds both a display type and a port
IdentityKnown == cls = "unified" /\ display_type # "None" /\ port # 0

\* the labels of the two login flows of the unified client
ModernPcs == {"um_status", "um_check", "um_captcha", "um_text", "um_post"}
LegacyPcs ==
    {"ul_root", "ul_login", "ul_captcha", "ul_solve", "ul_manual", "ul_post"}

\* this step is the start of a login call
LoginStarts == pc = "idle" /\ ncalls' = ncalls + 1 /\ op' = "login"

\* C14: a unified login on a client that was given both display_type and
\* port sends no detection probe, builds the base URL from exactly that
\* port and runs the login flow of exactly that type, whatever the display
\* answers.
C14_PinnedIdentityIsUsed ==
    /\ [][(IdentityKnown /\ LoginStarts)
             => /\ ~Detecting'
                /\ ~probed'
                /\ display_type' = display_type
                /\ port' = port
                /\ base_url' = port
                /\ pc' \in IF display_type = "modern" THEN {"um_status"}
                           ELSE {"ul_root", "idle"}]_vars
    /\ []((IdentityKnown /\ op = "login" /\ ~probed)
            => /\ ~Detecting
               /\ ~ProbeLog
               /\ base_url = port
               /\ \A i \in 1..Len(sent) : sent[i].port = port
               /\ pc \in {"idle"} \cup IF display_type = "modern"
                                       THEN ModernPcs
                                       ELSE LegacyPcs)

\* a client pinned to a legacy display on port 3777, an identity the
\* detector never returns, is in its legacy login on that port
C14_Witness ==
    /\ IdentityKnown
    /\ op = "login"
    /\ ~probed
    /\ display_type = "legacy"
    /\ port = 3777
    /\ pc = "ul_captcha"
    /\ sent[1].port = 3777


\* the labels of the content operations of the unified client
ModernContentPcs == {"u_storage", "u_content", "u_play"}
LegacyContentPcs == {"u_connect", "u_emit"}

\* C15: once the unified client holds a display type and a port they never
\* change; no later call sends a detection probe, and every later login,
\* get_media and play_playlist runs the branch of that type and sends its
\* requests to that port.
C15_IdentityIsImmutable ==
    /\ [][IdentityKnown
             => /\ display_type' = display_type
                /\ port' = port
                /\ ~Detecting'
                /\ (probed' => (probed /\ ncalls' = ncalls))]_vars
    /\ [](IdentityKnown
            => /\ pc \in ModernPcs \cup ModernContentPcs
                      => display_type = "modern"
               /\ pc \in LegacyPcs \cup LegacyContentPcs
                      => display_type = "legacy"
               /\ \A i \in 1..Len(sent) :
                      sent[i].sess # 0 => sent[i].port = port)

\* the second call of a client is a login that runs on the identity the
\* client holds, without a probe
C15_Witness ==
    /\ IdentityKnown
    /\ ncalls = 2
    /\ op = "login"
    /\ ~probed
    /\ pc = "um_check"
    /\ sent[1].port = port


\* the call in progress (or the last one) is a play_playlist on a legacy
\* display
LegacyPlay ==
    /\ op = "play_playlist"
    /\ \/ cls = "legacy"
       \/ cls = "unified" /\ display_type = "legacy"

\* "/mnt/lg/appstore/signage/"
SignagePrefix ==
    <<"/", "m", "n", "t", "/", "l", "g", "/", "a", "p", "p", "s", "t", "o",
      "r", "e", "/", "s", "i", "g", "n", "a", "g", "e", "/">>

\* C16: the launch command a legacy play emits targets com.webos.app.dsmp
\* and its src is the argument itself when that starts with "/", and
\* otherwise the argument behind "/mnt/lg/appstore/signage/".
C16_LegacyPathNormalised ==
    (LegacyPlay /\ sent # <<>>
        /\ sent[Len(sent)].ep = "EMIT PalmServiceBridge.call")
        => /\ req_param.id =
                  <<"c", "o", "m", ".", "w", "e", "b", "o", "s", ".", "a",
                    "p", "p", ".", "d", "s", "m", "p">>
           /\ req_param.src = IF Len(arg) > 0 /\ arg[1] = "/"
                              THEN arg
                              ELSE SignagePrefix \o arg

\* the legacy client emitted the command for the relative name "a"
C16_Witness ==
    /\ LegacyPlay
    /\ cls = "legacy"
    /\ pc = "idle"
    /\ ret = JBool(TRUE)
    /\ arg = <<"a">>
    /\ req_param.src = SignagePrefix \o <<"a">>


\* the operations that refuse to run before a login
GuardedOps ==
    \/ cls = "unified" /\ op = "play_playlist"
    \/ cls = "standalone"
          /\ op \in {"get_system_info", "get_storage_list", "get_media",
                     "play_media"}

\* C17: on a client whose authenticated flag is false, unified
\* play_playlist and the standalone get_system_info, get_storage_list,
\* get_media and play_media send no request, and end with the
\* not-authenticated error.
C17_UnauthenticatedFailsFast ==
    (GuardedOps /\ ~authenticated)
        => /\ sent = <<>>
           /\ pc = "idle" => ret = Raised("NotAuthenticated")

\* a standalone play_media before any login has ended with the error
C17_Witness ==
    /\ cls = "standalone"
    /\ op = "play_media"
    /\ ~authenticated
    /\ pc = "idle"
    /\ ret = Raised("NotAuthenticated")

\* the unified play_playlist before any login has ended with the error
C17_WitnessUnified ==
    /\ cls = "unified"
    /\ op = "play_playlist"
    /\ ~authenticated
    /\ pc = "idle"
    /\ ret = Raised("NotAuthenticated")


\* a login call has ended without reporting success
FailedLogin ==
    /\ op \in LoginOps
    /\ pc = "idle"
    /\ ret # JBool(TRUE)

\* C18: a failed login returns a failure reason that tells the kinds of
\* failure apart (unreachable transport, HTTP status error, captcha solve
\* failure, rejected credentials or captcha, account restricted), not the
\* one boolean every failure shares.
C18_FailureReasonDistinguishesKinds ==
    FailedLogin => ret # JBool(FALSE)


\* C19: no login operation lets an exception reach its caller: while a
\* login runs nothing is raised, it ends with a boolean, and a login whose
\* last request met a transport failure or a timeout ends with False.
C19_LoginNeverRaises ==
    op \in LoginOps
        => /\ ret.t # "raise"
           /\ pc = "idle" => ret \in {JBool(TRUE), JBool(FALSE)}
           /\ (pc = "idle" /\ resp.exc) => ret = JBool(FALSE)

\* a standalone login whose credentials POST met a transport failure has
\* ended with False
C19_Witness ==
    /\ cls = "standalone"
    /\ op = "login"
    /\ pc = "idle"
    /\ sent # <<>>
    /\ sent[Len(sent)].ep = "POST /login/login"
    /\ resp.exc
    /\ ret = JBool(FALSE)

\* a unified login whose detection and whose every legacy attempt met a
\* transport failure has ended with False
C19_WitnessUnified ==
    /\ cls = "unified"
    /\ op = "login"
    /\ pc = "idle"
    /\ probed
    /\ resp.exc
    /\ ret = JBool(FALSE)


\* the step that sends the credentials POST of a legacy login
SubmitStep == pc \in {"ul_post", "l_post"} /\ pc' # pc

\* the attempt has ended authenticated: the flag is set and the call
\* returned True
EndedAuthenticated == pc = "idle" /\ ret = JBool(TRUE) /\ authenticated

\* C21 as stated: the attempt of a legacy login ends authenticated if and
\* only if the body of the answer to its credentials POST is exactly the
\* text "success".
C21_ExactSuccessBody ==
    [][SubmitStep
          => (EndedAuthenticated'
                 <=> (~resp'.exc /\ resp'.body = JStr(S_success)))]_vars

\* what each client takes for a confirmation: the body without its
\* surrounding whitespace is "success", and for LGWebOSLegacyClient the
\* status is 200 as well
StrippedSuccess(r) ==
    /\ ~r.exc
    /\ Strip(r.body.s) = S_success
    /\ cls = "legacy" => r.status = 200

\* C21 as amended: the attempt ends authenticated if and only if the body
\* of the answer to its credentials POST, without surrounding whitespace,
\* is "success" (and, in LGWebOSLegacyClient.login, the status is 200); any
\* other answer ends the attempt in failure.
C21_StrippedSuccessBody ==
    [][SubmitStep => (EndedAuthenticated' <=> StrippedSuccess(resp'))]_vars

\* a unified legacy login was confirmed by a body with a trailing newline
C21_Witness ==
    /\ cls = "unified"
    /\ op = "login"
    /\ EndedAuthenticated
    /\ sent # <<>>
    /\ sent[Len(sent)].ep = "POST /login"
    /\ resp.body = JStr(S_success \o <<"\n">>)


\* C22: in the unified legacy login a non-200 answer to GET / or to
\* GET /login aborts the attempt: the request that follows in the attempt
\* (GET /login, then the captcha image request, which alone leads to the
\* credentials POST) is sent only after an answer with status 200.
C22_Non200AbortsAttempt ==
    [][(cls = "unified" /\ pc \in {"ul_login", "ul_captcha"} /\ sent' # sent)
          => (~resp.exc /\ resp.status = 200)]_vars


\* how far into its attempt a legacy login is
StepOfAttempt ==
    CASE pc \in {"ul_root", "l_root"} -> 1
      [] pc \in {"ul_login", "l_login"} -> 2
      [] pc \in {"ul_captcha", "l_captcha"} -> 3
      [] pc \in {"ul_solve", "l_solve"} -> 4
      [] pc \in {"ul_manual", "l_manual"} -> 5
      [] pc \in {"ul_post", "l_post"} -> 6
      [] OTHER -> 7

\* what is left of a legacy retry loop: the steps of the attempts not yet
\* finished; 0 once the call has returned
LoopRank ==
    IF pc = "idle" THEN 0
    ELSE (max_attempts - attempt) * 7 + (7 - StepOfAttempt)

\* the credentials POSTs in the log of the current attempt
PostsOfAttempt == {i \in 1..Len(sent) : sent[i].ep = "POST /login"}

\* an entry of the log that a later entry repeats: same endpoint, same port
Resent(i) ==
    \E j \in (i + 1)..Len(sent) :
        sent[j].ep = sent[i].ep /\ sent[j].port = sent[i].port

\* a legacy retry loop has been entered (detection, if any, is over)
InLegacyLoop == LegacyLoop /\ ~Detecting

\* C23: the legacy retry loops are bounded. For every budget M the attempt
\* counter never passes M, a budget of 0 sends no request of the login,
\* every step of the loop uses up a step of an attempt or the rest of the
\* attempt (so the call returns), and an attempt sends at most one
\* credentials POST: at most M in all. Outside the two loops no request
\* that failed is sent again: the only request a call repeats is the
\* detector's login-status probe, and only after a 200 answer.
C23_RetryLoopsAreBounded ==
    /\ [](InLegacyLoop
            => /\ attempt <= max_attempts
               /\ Cardinality(PostsOfAttempt) <= 1
               /\ max_attempts = 0
                     => /\ pc = "idle"
                        /\ \A i \in 1..Len(sent) : sent[i].sess = 0)
    /\ [][(InLegacyLoop /\ pc # "idle") => LoopRank' < LoopRank]_vars
    /\ [](~InLegacyLoop
            => \A i \in 1..Len(sent) :
                  Resent(i) => /\ sent[i].sess = 0
                               /\ ~sent[i].ans.exc
                               /\ sent[i].ans.status = 200)

\* a unified legacy login used up a budget of at least two attempts, the
\* last of which sent its credentials and was rejected
C23_Witness ==
    /\ cls = "unified"
    /\ LegacyLoop
    /\ pc = "idle"
    /\ ret = JBool(FALSE)
    /\ max_attempts >= 2
    /\ attempt = max_attempts
    /\ PostsOfAttempt # {}


\* a legacy retry loop has returned failure, and in every one of its
\* attempts the captcha image was fetched and the OCR read no four digits
EverySolveFailed ==
    /\ InLegacyLoop
    /\ pc = "idle"
    /\ ret = JBool(FALSE)
    /\ noneSoFar
    /\ solved = "none"

\* C24: when the OCR yields no 4-digit result on every attempt of a legacy
\* login and every captcha image fetch succeeds, the operator has been asked
\* for the captcha at least once before the login returns failure.
C24_ManualEntryBeforeGivingUp ==
    EverySolveFailed => prompted


\* the steps of a modern login, in the order of the flow
ModernSteps ==
    << "GET /login/status", "GET /login/checkLoginStatus",
       "GET /login/captcha", "GET /login/captchaText", "POST /login/login" >>

\* the steps of the standalone login
StandalonePcs == {"sa_status", "sa_check", "sa_captcha", "sa_text", "sa_post"}

\* the requests of the log that went out on the client's session (the
\* detector's probes do not)
OnSession == SelectSeq(sent, LAMBDA q : q.sess # 0)

\* C25: a modern login is single-attempt: the requests one call of the
\* standalone login, or of the unified login with modern identity, sends on
\* the client's session are the steps of the flow in order, each at most
\* once (so at most one captcha image request, one captchaText request and
\* one credentials POST), and a step that failed ends the call.
C25_ModernLoginIsSingleAttempt ==
    /\ [](ModernLogin
            => /\ Len(OnSession) <= Len(ModernSteps)
               /\ \A i \in 1..Len(OnSession) : OnSession[i].ep = ModernSteps[i])
    /\ [][(ModernLogin /\ pc \in ModernPcs \cup StandalonePcs /\ resp'.exc)
              => pc' = "idle"]_vars

\* a standalone login went through all five steps and was rejected
C25_Witness ==
    /\ cls = "standalone"
    /\ ModernLogin
    /\ pc = "idle"
    /\ ret = JBool(FALSE)
    /\ Len(OnSession) = 5


\* C26: a modern login never replaces the client's session: every request
\* of the call on the client's session went out on the session the client
\* holds, and no step of the call, its first and its last included, changes
\* which session that is.
C26_ModernLoginKeepsSession ==
    /\ [](ModernLogin
            => \A i \in 1..Len(OnSession) : OnSession[i].sess = session)
    /\ [][ModernLogin' => session' = session]_vars

\* a unified modern login sent all five requests on the one session
C26_Witness ==
    /\ cls = "unified"
    /\ ModernLogin
    /\ pc = "idle"
    /\ Len(OnSession) = 5
    /\ \A i \in 1..5 : OnSession[i].sess = session


\* the discriminant of a modern candidate as the claim words it: the
\* login-status endpoint responded with success, and the captchaText
\* endpoint returned a JSON object with a status and a message field
ModernMeets(log) ==
    /\ Len(log) = 3
    /\ log[1].ep = "GET /login/status"
    /\ ~log[1].ans.exc /\ log[1].ans.status = 200
    /\ log[3].ep = "GET /login/captchaText"
    /\ ~log[3].ans.exc
    /\ log[3].ans.body.t = "dict"
    /\ {"status", "message"} \subseteq DOMAIN log[3].ans.body.d

\* the discriminant of a legacy candidate as the claim words it
LegacyMeets(log) ==
    /\ Len(log) = 2
    /\ log[1].ep = "GET /login"
    /\ ~log[1].ans.exc /\ log[1].ans.status = 200
    /\ Contains(log[1].ans.ctype, S_text_html)
    /\ log[2].ep = "GET /request/captchapng"
    /\ ~log[2].ans.exc /\ log[2].ans.status \in {200, 404}

Meets(log, type) ==
    IF type = "modern" THEN ModernMeets(log) ELSE LegacyMeets(log)

\* C27: the detector accepts a candidate whenever its probes met its
\* discriminant (modern: login-status answered with success and captchaText
\* returned JSON with a status and a message field; legacy: the login page
\* answered 200 with an HTML content type and the captcha image endpoint
\* 200 or 404), and returns a candidate whose discriminant was not met only
\* as the default after the last candidate.
C27_DiscriminantsDecide ==
    /\ [][(Detecting /\ sent' # sent /\ Meets(sent', ProbeOrder[cand].type))
             => /\ ~Detecting'
                /\ display_type' = ProbeOrder[cand].type
                /\ port' = ProbeOrder[cand].port]_vars
    /\ [][(Detecting /\ ~Detecting'
              /\ ~Meets(sent', ProbeOrder[cand].type))
             => /\ cand = Len(ProbeOrder)
                /\ display_type' = "modern"
                /\ port' = 3777]_vars


\* the content queries in the log
ContentQueries == {i \in 1..Len(sent) : sent[i].ep = "GET /content/list"}

\* the deviceIds a storage answer lists, in its order; none when the answer
\* holds no device list
ReturnedIds(body) ==
    IF /\ body.t = "dict"
       /\ "data" \in DOMAIN body.d
       /\ body.d.data.t = "dict"
       /\ "payload" \in DOMAIN body.d.data.d
       /\ body.d.data.d.payload.t = "dict"
       /\ "devices" \in DOMAIN body.d.data.d.payload.d
       /\ body.d.data.d.payload.d.devices.t = "list"
    THEN LET devices == body.d.data.d.payload.d.devices.l IN
         [i \in 1..Len(devices) |-> devices[i].d.deviceId]
    ELSE <<>>

\* the content query of a get_media call came second, after the storage
\* query of the same call, filtered by exactly the ids that one returned,
\* ordered by file name ascending with limit 100
QueryFollowsStorage ==
    /\ Len(sent) = 2
    /\ sent[1].ep = "GET /storage/list"
    /\ sent[2].ep = "GET /content/list"
    /\ req_param.filter = ReturnedIds(sent[1].body)
    /\ req_param.orderBy = "FILE_NAME"
    /\ req_param.desc = FALSE
    /\ req_param.limit = 100

\* C28 as stated: every get_media call sends exactly one content query,
\* after the storage query of the same call and filtered by exactly the
\* deviceIds that query returned, ordered by file name ascending with
\* limit 100.
C28_ExactlyOneContentQuery ==
    (op = "get_media" /\ pc = "idle")
        => (Cardinality(ContentQueries) = 1 /\ QueryFollowsStorage)

\* C28 as amended: a get_media call sends at most one content query, and
\* exactly one when its storage query was answered with a device list; the
\* content query comes after the storage query of the same call, is
\* filtered by exactly the deviceIds that query returned, and is ordered by
\* file name ascending with limit 100.
C28_ContentQueryFollowsStorage ==
    op = "get_media"
        => /\ Cardinality(ContentQueries) <= 1
           /\ ContentQueries # {} => QueryFollowsStorage
           /\ (/\ pc = "idle"
               /\ sent # <<>>
               /\ ReturnedIds(sent[1].body) # <<>>)
                 => ContentQueries # {}

\* a standalone get_media listed two devices and queried the content of
\* exactly these two
C28_Witness ==
    /\ cls = "standalone"
    /\ op = "get_media"
    /\ pc = "idle"
    /\ QueryFollowsStorage
    /\ Len(req_param.filter) = 2


\* C29: in the unified legacy login with budget M the operator is asked for
\* the captcha on attempt k only if k > M - 2, that is on the last two
\* attempts; with the default budget of 5 an OCR failure on each of the
\* attempts 1 to 3 is retried automatically.
C29_ManualOnlyOnLastTwoAttempts ==
    (cls = "unified" /\ pc = "ul_manual") => attempt > max_attempts - 2


\* C30: every captcha value a legacy login sends in a credentials POST is a
\* string of exactly 4 decimal digits, whether the OCR read it, the
\* operator typed it or the caller passed it.
C30_PostedCaptchaIsFourDigits ==
    "captcha" \in DOMAIN posted
        => /\ posted.captcha # None
           /\ Len(posted.captcha) = 4
           /\ \A i \in 1..4 : posted.captcha[i] \in Digits


\* the call in progress (or the last one) is login_with_retry
RetryCall == cls = "legacy" /\ op = "login_with_retry"

\* C31: login_with_retry(M) calls login at most M times. It returns True in
\* the very step in which a call's credentials were answered with success,
\* and sends nothing after it; it returns False only when M calls have
\* failed; every call after a failed one starts on a session no earlier
\* call used, with no captcha carried over, and posts credentials only
\* after fetching a captcha image of its own.
C31_RetryUntilFirstSuccess ==
    /\ [](RetryCall
            => /\ attempt <= max_attempts
               /\ (pc = "idle" /\ ret = JBool(FALSE)) => attempt = max_attempts
               /\ (pc = "idle" /\ ret = JBool(TRUE))
                     => /\ sent[Len(sent)].ep = "POST /login"
                        /\ L_Accepted(resp)
               /\ \A i \in PostsOfAttempt :
                      \E j \in 1..(i - 1) :
                          sent[j].ep = "GET /request/captchapng")
    /\ [][(RetryCall /\ pc # "idle" /\ pc' # "idle" /\ attempt' # attempt)
             => /\ attempt' = attempt + 1
                /\ pc = "l_post" => ~L_Accepted(resp')
                /\ session' # session
                /\ session' \notin usedSess
                /\ captcha' = None]_vars

\* the second call of login_with_retry succeeded on a session of its own
C31_Witness ==
    /\ RetryCall
    /\ pc = "idle"
    /\ ret = JBool(TRUE)
    /\ attempt = 2
    /\ Cardinality(usedSess) = 2


\* C32: LGWebOSLegacyClient.play_playlist on a client whose authenticated
\* flag is false fails fast: it does not go on to open the Socket.io
\* connection or to emit the PalmServiceBridge.call command, nothing is
\* sent, and it does not return True.
C32_LegacyPlayNeedsLogin ==
    (cls = "legacy" /\ op = "play_playlist" /\ ~is_authenticated)
        => /\ pc \notin {"l_connect", "l_emit"}
           /\ sent = <<>>
           /\ pc = "idle" => ret # JBool(TRUE)


\* a play_playlist on an authenticated unified client with modern identity
\* has ended, and its storage or content query gave no results list
ListingFailed ==
    /\ cls = "unified"
    /\ op = "play_playlist"
    /\ display_type = "modern"
    /\ authenticated
    /\ pc = "idle"
    /\ media.t # "list"

\* C33: when the storage query or the content query of a unified modern
\* play_playlist fails, the call raises nothing: it returns a failure
\* result and has sent no play request.
C33_PlayAbsorbsListingFailure ==
    ListingFailed
        => /\ ret.t # "raise"
           /\ ret # JBool(TRUE)
           /\ \A i \in 1..Len(sent) : sent[i].ep # "PUT /content/play/dsmp"


\* C34: on the legacy command channel ensure-connected reports success, so
\* that the call goes on to emit its command, only when the connection is
\* established; a play call that finds the channel not connected, also
\* after an earlier attempt failed, attempts the connection first.
C34_EmitOnlyWhenConnected ==
    (LegacyPlay /\ pc \in {"u_emit", "l_emit"}) => sio = "connected"


(* C35: a unified client constructed with a port keeps it: no step of login
   or of detection changes a port the caller supplied, and the base URL, once
   set, carries that port. *)
C35_SuppliedPortKept ==
    [][(cls = "unified" /\ port # 0)
          => /\ port' = port
             /\ base_url' \in {base_url, port}]_vars


(* C36: whenever a login operation (login, login_with_retry) returns False,
   the client's authenticated flag is false on return, also when an earlier
   login of the same client had succeeded. *)
C36_FailedLoginClearsFlag ==
    (op \in LoginOps /\ pc = "idle" /\ ret = JBool(FALSE)) => ~authenticated


\* the last request of a standalone content call failed: the transport
\* raised or the display answered with a status other than 200
ContentRequestFailed ==
    /\ cls = "standalone"
    /\ op \in {"get_storage_list", "get_storage_ids", "get_media"}
    /\ authenticated
    /\ pc = "idle"
    /\ Len(sent) > 0
    /\ resp.exc \/ resp.status # 200

(* C37: a standalone content operation on an authenticated client whose
   storage or content request failed (non-200 status or transport failure)
   does not raise: it returns None or an empty list. *)
C37_ContentFailureIsAbsorbed ==
    ContentRequestFailed => ret \in {JNone, JList(<<>>)}


\* the unified client takes a step of _login_modern
UnifiedModernStep == cls = "unified" /\ pc \in ModernPcs /\ pc' # pc

\* the call ends with the value v
EndsWith(v) == pc' = "idle" /\ ret' = v

\* the step goes on to the label l and returns nothing yet
GoesOn(l) == pc' = l /\ ret' = ret

\* what the standalone login (lg_webos_client.py 59-133) does at the step
\* the unified login is at, on the answer resp' the unified login received:
\* the request it sends, where it goes next, what it returns, and the flag
StandaloneReaction ==
    LET r == resp'
        ep == sent'[Len(sent')].ep IN
    /\ Len(sent') > 0
    /\ CASE pc = "um_status" ->
              /\ ep = "GET /login/status"
              /\ IF r.exc \/ r.status # 200
                 THEN EndsWith(JBool(FALSE)) ELSE GoesOn("um_check")
              /\ authenticated' = authenticated
         [] pc = "um_check" ->
              /\ ep = "GET /login/checkLoginStatus"
              /\ IF r.exc THEN EndsWith(JBool(FALSE))
                 ELSE IF SA_Existing(r) THEN EndsWith(JBool(TRUE))
                 ELSE IF r.body.t # "dict" THEN EndsWith(JBool(FALSE))
                 ELSE GoesOn("um_captcha")
              /\ authenticated' =
                     (authenticated \/ (~r.exc /\ SA_Existing(r)))
         [] pc = "um_captcha" ->
              /\ ep = "GET /login/captcha"
              /\ IF r.exc \/ r.status # 200
                 THEN EndsWith(JBool(FALSE)) ELSE GoesOn("um_text")
              /\ authenticated' = authenticated
         [] pc = "um_text" ->
              /\ ep = "GET /login/captchaText"
              /\ IF \/ r.exc
                    \/ r.status # 200
                    \/ r.body.t # "dict"
                    \/ DictGet(r.body, "status", JNone) # JInt(200)
                    \/ SA_CaptchaText(r.body).t # "str"
                 THEN EndsWith(JBool(FALSE))
                 ELSE /\ GoesOn("um_post")
                      /\ captcha_text' = SA_CaptchaText(r.body).s
              /\ authenticated' = authenticated
         [] pc = "um_post" ->
              /\ ep = "POST /login/login"
              /\ posted' = [pwd |-> SA_encode_password(password,
                                                       captcha_text)]
              /\ EndsWith(JBool(~r.exc /\ SA_LoginOk(r)))
              /\ authenticated' =
                     (authenticated \/ (~r.exc /\ SA_LoginOk(r)))
         [] OTHER -> FALSE

(* C38: the unified client's modern login is equivalent to the standalone
   login: at every step, on the same answer from the display, it sends the
   request the standalone login sends, with the same body, goes on or
   returns as the standalone login does, and leaves the same authenticated
   flag. *)
C38_ModernLoginsEquivalent ==
    [][UnifiedModernStep => StandaloneReaction]_vars


\* the captcha texts the display serves
ServedTexts == {S_4821, S_1357}

\* x is the output of the digest function
IsDigest(x) == Len(x) >= 2 /\ x[1] = "sha512(" /\ x[Len(x)] = ")"

\* the log holds the credentials POST of a modern login
CredentialsPosted ==
    \E i \in 1..Len(sent) : sent[i].ep = "POST /login/login"

(* C39: a modern login never transmits the plaintext password. The
   detector's probes carry no payload; in the standalone login and in the
   unified modern login the only payload is that of the POST to
   /login/login, whose single field pwd is a digest, is not the password,
   and is the digest for the captcha text of this attempt and for no other
   served text, so that different captcha texts give different pwd values. *)
C39_OnlyDigestIsSent ==
    /\ Detecting => posted = NoPost
    /\ ModernLogin =>
         /\ (posted # NoPost) <=> CredentialsPosted
         /\ posted # NoPost =>
              /\ sent[Len(sent)].ep = "POST /login/login"
              /\ DOMAIN posted = {"pwd"}
              /\ posted.pwd # password
              /\ IsDigest(posted.pwd)
              /\ \A t \in ServedTexts :
                     (posted.pwd = Sha512Hex(Sha512Hex(password) \o t))
                         <=> (t = captcha_text)

\* a standalone client whose second login posted the digest for the text
\* "4821"
C39_Witness ==
    /\ cls = "standalone"
    /\ ModernLogin
    /\ ncalls = 2
    /\ posted # NoPost
    /\ captcha_text = S_4821
    /\ pc = "idle"

=============================================================================
